---- MODULE Spec2Model ----
(***************************************************************************)
(* Context Resolution Engine of the context tool                           *)
(* (context-tool/src/context_analyzer.py, class ContextAnalyzer).          *)
(*                                                                         *)
(* Strings are sequences of one-character strings, so that lower-casing,   *)
(* substring search, SQL LIKE and the name regex are computed character by *)
(* character.  SQL NULL / Python None in a text column is the value Null.  *)
(***************************************************************************)
EXTENDS Integers, Sequences, FiniteSets, TLC

VARIABLES db, semantic, last, class_patterns, matchers, threads, loads, monitor

vars == <<db, semantic, last, class_patterns, matchers, threads, loads, monitor>>

\* what the analyzer's calls leave alone
env == <<class_patterns, matchers, threads, loads, monitor>>

\* what the pattern matcher's calls leave alone
callers == <<threads, loads, monitor>>

(***************************************************************************)
(* Characters and strings                                                  *)
(***************************************************************************)
UpperChars == {"A", "B", "C", "D", "J", "T"}

LowerChars == {"a", "b", "c", "d", "h", "j", "p", "s", "t", "x"}

Digits == {"0", "1", "2", "3", "4", "5", "6", "7", "8", "9"}

\* the characters a text can hold
Chars ==
    UpperChars \cup LowerChars \cup Digits
        \cup {" ", "-", ".", "@", ":", "/", "_", "%", "+", "|"}

Space == " "

\* SQL NULL / Python None stored in a text column
Null == <<"NULL">>

\* str.lower() on one character (ASCII letters of the alphabet)
LowerChar(c) ==
    CASE c = "A" -> "a"
      [] c = "B" -> "b"
      [] c = "C" -> "c"
      [] c = "D" -> "d"
      [] c = "J" -> "j"
      [] c = "T" -> "t"
      [] OTHER -> c

\* str.lower()
Lower(s) == [i \in 1..Len(s) |-> LowerChar(s[i])]

\* Python `needle in hay` on strings
Contains(hay, needle) ==
    \E i \in 0..(Len(hay) - Len(needle)) :
        SubSeq(hay, i + 1, i + Len(needle)) = needle

\* first index >= i of s that holds a non-space character, Len(s)+1 if none
RECURSIVE SkipSpaces(_, _)
SkipSpaces(s, i) ==
    IF i > Len(s) THEN i
    ELSE IF s[i] = Space THEN SkipSpaces(s, i + 1) ELSE i

\* first index >= i of s that holds a space, Len(s)+1 if none
RECURSIVE SkipNonSpaces(_, _)
SkipNonSpaces(s, i) ==
    IF i > Len(s) THEN i
    ELSE IF s[i] # Space THEN SkipNonSpaces(s, i + 1) ELSE i

\* str.split() with no argument, from index i on: the maximal runs of
\* non-whitespace characters, in order
RECURSIVE SplitFrom(_, _)
SplitFrom(s, i) ==
    LET b == SkipSpaces(s, i)
        e == SkipNonSpaces(s, b)
    IN  IF b > Len(s) THEN <<>>
        ELSE <<SubSeq(s, b, e - 1)>> \o SplitFrom(s, e)

Split(s) == SplitFrom(s, 1)

\* SQLite LIKE (no ESCAPE clause): % matches any run of characters, _ any
\* single character, letters compare case-insensitively; pi and si are the
\* current positions in the pattern p and the subject s
RECURSIVE LikeFrom(_, _, _, _)
LikeFrom(p, pi, s, si) ==
    IF pi > Len(p) THEN si > Len(s)
    ELSE IF p[pi] = "%"
         THEN \E k \in si..(Len(s) + 1) : LikeFrom(p, pi + 1, s, k)
         ELSE /\ si <= Len(s)
              /\ \/ p[pi] = "_"
                 \/ LowerChar(p[pi]) = LowerChar(s[si])
              /\ LikeFrom(p, pi + 1, s, si + 1)

\* column LIKE '%text%'; a NULL column makes the comparison NULL, i.e. not true
LikeContains(column, text) ==
    /\ column # Null
    /\ LikeFrom(<<"%">> \o text \o <<"%">>, 1, column, 1)

(***************************************************************************)
(* _extract_person_names: re.findall of                                    *)
(*     \b[A-Z][a-z]+(?:\s+[A-Z][a-z]+)+\b                                  *)
(***************************************************************************)
\* \w of the regex engine, for the characters of the alphabet
IsWordChar(c) == c \in UpperChars \cup LowerChars \cup Digits \cup {"_"}

\* \b at the gap before index i (1 <= i <= Len(s)+1)
WordBoundary(s, i) ==
    LET before == i > 1 /\ IsWordChar(s[i - 1])
        after  == i <= Len(s) /\ IsWordChar(s[i])
    IN  before # after

\* index after the run of [a-z] that starts at i
RECURSIVE SkipLower(_, _)
SkipLower(s, i) ==
    IF i <= Len(s) /\ s[i] \in LowerChars THEN SkipLower(s, i + 1) ELSE i

\* [A-Z][a-z]+ at index i: the index after the word, 0 when it does not match
CapWordEnd(s, i) ==
    IF i + 1 <= Len(s) /\ s[i] \in UpperChars /\ s[i + 1] \in LowerChars
    THEN SkipLower(s, i + 1)
    ELSE 0

\* (?:\s+[A-Z][a-z]+)* from index e on, e being the end of the words matched
\* so far and n their number: the set of end indexes at which the whole
\* regex can stop (two words at least, \b at the end)
RECURSIVE NameEnds(_, _, _)
NameEnds(s, e, n) ==
    LET here == IF n >= 2 /\ WordBoundary(s, e) THEN {e} ELSE {}
        w    == SkipSpaces(s, e)
        nxt  == IF w > e THEN CapWordEnd(s, w) ELSE 0
    IN  IF nxt = 0 THEN here ELSE here \cup NameEnds(s, nxt, n + 1)

SetMax(S) == CHOOSE m \in S : \A k \in S : k <= m

\* the regex tried at index i: the end index of the (greedy) match, 0 if none
NameMatchEnd(s, i) ==
    IF ~WordBoundary(s, i) THEN 0
    ELSE LET e == CapWordEnd(s, i)
         IN  IF e = 0 THEN 0
             ELSE LET ends == NameEnds(s, e, 1)
                  IN  IF ends = {} THEN 0 ELSE SetMax(ends)

\* a variant whose regex needs no \b in front of the first word
RECURSIVE FindAllNames_NoLeadingBoundary(_, _)
FindAllNames_NoLeadingBoundary(s, i) ==
    IF i > Len(s) THEN <<>>
    ELSE LET w == CapWordEnd(s, i)
             ends == IF w = 0 THEN {} ELSE NameEnds(s, w, 1)
         IN  IF ends = {} THEN FindAllNames_NoLeadingBoundary(s, i + 1)
             ELSE <<SubSeq(s, i, SetMax(ends) - 1)>>
                      \o FindAllNames_NoLeadingBoundary(s, SetMax(ends))

\* re.findall: leftmost non-overlapping matches, scanning from index i
RECURSIVE FindAllNames(_, _)
FindAllNames(s, i) ==
    IF i > Len(s) THEN <<>>
    ELSE LET e == NameMatchEnd(s, i)
         IN  IF e = 0 THEN FindAllNames(s, i + 1)
             ELSE <<SubSeq(s, i, e - 1)>> \o FindAllNames(s, e)

Range(f) == {f[i] : i \in DOMAIN f}

\* set(matches): the distinct names
ExtractPersonNames(text) == Range(FindAllNames(text, 1))

(***************************************************************************)
(* PatternMatcher (pattern_matcher.py).  A regex is the sequence of its    *)
(* elements: \b, or a character class repeated min..max times (max = -1:   *)
(* unbounded).  With re.IGNORECASE a literal letter is the class of its    *)
(* two cases.                                                              *)
(***************************************************************************)
Boundary == [k |-> "b", chars |-> {}, min |-> 0, max |-> 0]

Rep(chars, min, max) == [k |-> "rep", chars |-> chars, min |-> min, max |-> max]

One(chars) == Rep(chars, 1, 1)

Letters == UpperChars \cup LowerChars

\* PATTERNS, in the order of the dict
PATTERNS ==
    << [type |-> "jira_ticket",
        regex |-> <<Boundary, One({"J", "j"}), One({"T", "t"}), Rep({"-"}, 0, 1),
                    Rep(Digits, 1, -1), Boundary>>],
       [type |-> "email",
        regex |-> <<Boundary, Rep(Letters \cup Digits \cup {".", "_", "%", "+", "-"}, 1, -1),
                    One({"@"}), Rep(Letters \cup Digits \cup {".", "-"}, 1, -1),
                    One({"."}), Rep(Letters \cup {"|"}, 2, -1), Boundary>>],
       [type |-> "url",
        regex |-> <<One({"H", "h"}), One({"T", "t"}), One({"T", "t"}), One({"P", "p"}),
                    Rep({"S", "s"}, 0, 1), One({":"}), One({"/"}), One({"/"}),
                    Rep(Chars \ {Space}, 1, -1)>>],
       [type |-> "phone",
        regex |-> <<Boundary, Rep(Digits, 3, 3), Rep({"-", "."}, 0, 1), Rep(Digits, 3, 3),
                    Rep({"-", "."}, 0, 1), Rep(Digits, 4, 4), Boundary>>],
       [type |-> "date",
        regex |-> <<Boundary, Rep(Digits, 4, 4), One({"-"}), Rep(Digits, 2, 2), One({"-"}),
                    Rep(Digits, 2, 2), Boundary>>] >>

\* length of the run of characters of the class that starts at index i
RECURSIVE RunLength(_, _, _)
RunLength(s, i, chars) ==
    IF i <= Len(s) /\ s[i] \in chars THEN 1 + RunLength(s, i + 1, chars) ELSE 0

\* the indexes at which elements j.. of the regex can stop when they start
\* at index i of s
RECURSIVE MatchEnds(_, _, _, _)
MatchEnds(regex, j, s, i) ==
    IF j > Len(regex) THEN {i}
    ELSE LET e == regex[j]
         IN  IF e.k = "b"
             THEN IF WordBoundary(s, i) THEN MatchEnds(regex, j + 1, s, i) ELSE {}
             ELSE LET run == RunLength(s, i, e.chars)
                      top == IF e.max >= 0 /\ e.max < run THEN e.max ELSE run
                  IN  UNION {MatchEnds(regex, j + 1, s, i + c) : c \in e.min..top}

\* re.findall(regex, text, re.IGNORECASE): leftmost non-overlapping
\* matches; the greedy quantifiers of these patterns take the longest match
RECURSIVE FindAll(_, _, _)
FindAll(regex, s, i) ==
    IF i > Len(s) THEN <<>>
    ELSE LET ends == MatchEnds(regex, 1, s, i)
         IN  IF ends = {} THEN FindAll(regex, s, i + 1)
             ELSE <<SubSeq(s, i, SetMax(ends) - 1)>> \o FindAll(regex, s, SetMax(ends))

\* detect: the pattern types that occur, in PATTERNS order, each with its
\* matches
Detect(text) ==
    LET all == [n \in DOMAIN PATTERNS |->
                   [type |-> PATTERNS[n].type,
                    matches |-> FindAll(PATTERNS[n].regex, text, 1)]]
        Found(r) == r.matches # <<>>
    IN  SelectSeq(all, Found)

\* get_type: the first type of the priority list that was detected
GetType(text) ==
    LET detections == Detect(text)
        priority == <<"jira_ticket", "email", "url", "phone", "date">>
        hits == {n \in DOMAIN priority :
                    \E m \in DOMAIN detections : detections[m].type = priority[n]}
    IN  IF detections = <<>> THEN <<>>  \* None
        ELSE IF hits # {} THEN <<priority[CHOOSE n \in hits : \A m \in hits : n <= m]>>
        ELSE <<detections[1].type>>

\* a regex that re.compile rejects, e.g. '(' (unterminated subpattern)
Unbalanced == [k |-> "error", chars |-> {}, min |-> 0, max |-> 0]

Compiles(regex) == \A j \in DOMAIN regex : regex[j].k # "error"

\* detect on the dict the instance sees: re.findall compiles the regex and
\* lets re.error out; the result is [raised, value]
DetectOn(patterns, text) ==
    LET all == [n \in DOMAIN patterns |->
                   [type |-> patterns[n].type,
                    matches |-> IF Compiles(patterns[n].regex)
                                THEN FindAll(patterns[n].regex, text, 1)
                                ELSE <<>>]]
        Found(r) == r.matches # <<>>
    IN  IF \E n \in DOMAIN patterns : ~Compiles(patterns[n].regex)
        THEN [raised |-> "re.error", value |-> <<>>]
        ELSE [raised |-> "none", value |-> SelectSeq(all, Found)]

\* a variant of get_type that returns the last type detected
GetTypeOn_LastDetected(patterns, text) ==
    LET detections == DetectOn(patterns, text)
    IN  IF detections.raised # "none" THEN detections
        ELSE IF detections.value = <<>> THEN [raised |-> "none", value |-> <<>>]
        ELSE [raised |-> "none",
              value |-> <<detections.value[Len(detections.value)].type>>]

\* get_type on the dict the instance sees: [raised, value]
GetTypeOn(patterns, text) ==
    LET detections == DetectOn(patterns, text)
        priority == <<"jira_ticket", "email", "url", "phone", "date">>
        hits == {n \in DOMAIN priority :
                    \E m \in DOMAIN detections.value :
                        detections.value[m].type = priority[n]}
    IN  IF detections.raised # "none" THEN detections
        ELSE IF detections.value = <<>> THEN [raised |-> "none", value |-> <<>>]
        ELSE IF hits # {}
             THEN [raised |-> "none",
                   value |-> <<priority[CHOOSE n \in hits : \A m \in hits : n <= m]>>]
             ELSE [raised |-> "none", value |-> <<detections.value[1].type>>]

\* d[key] = value on a dict: a key that is present keeps its position
SetItem(patterns, pattern_type, regex) ==
    IF \E n \in DOMAIN patterns : patterns[n].type = pattern_type
    THEN [n \in DOMAIN patterns |->
             IF patterns[n].type = pattern_type
             THEN [type |-> pattern_type, regex |-> regex]
             ELSE patterns[n]]
    ELSE Append(patterns, [type |-> pattern_type, regex |-> regex])

\* an instance made by PatternMatcher(): the class has no __init__, so the
\* instance has no attribute of its own
NewMatcher == [PATTERNS |-> <<>>]

\* the class attribute as the module defines it, and the one matcher the
\* application makes
InitEnv ==
    /\ class_patterns = PATTERNS
    /\ matchers = <<NewMatcher>>
    /\ threads = <<>>
    /\ loads = [called |-> 0, returned |-> 0]
    /\ monitor = <<>>

\* self.PATTERNS: the instance attribute if the instance has one, else the
\* class attribute
PatternsOf(m) ==
    IF matchers[m].PATTERNS # <<>> THEN matchers[m].PATTERNS[1] ELSE class_patterns

(***************************************************************************)
(* The relational store (database.py, initialize_schema).  A table is the  *)
(* sequence of its rows in rowid order, which is the order SELECT returns  *)
(* them in; ids are the AUTOINCREMENT values 1, 2, ...                     *)
(* Only the columns the analyzer reads are kept.                           *)
(***************************************************************************)
MaxContacts == 2

MaxSnippets == 1

MaxProjects == 1

MaxAbbreviations == 1

MaxEdges == 2

\* rows in all tables together
MaxRows == 4

\* the metadata column: NULL, a text that is not JSON, or a JSON object
MetaNull == [kind |-> "null", linked_projects |-> <<>>, team_lead |-> Null]

MetaInvalid == [kind |-> "invalid", linked_projects |-> <<>>, team_lead |-> Null]

MetaObject(linked, lead) ==
    [kind |-> "object", linked_projects |-> linked, team_lead |-> lead]

N_AbBa == <<"A", "b", " ", "B", "a">>

N_AbCa == <<"A", "b", " ", "C", "a">>

N_AbBaCa == <<"A", "b", " ", "B", "a", " ", "C", "a">>

N_Da == <<"D", "a">>

ContactPool ==
    { [name |-> N_AbBa, email |-> <<"a", "b", "@", "x">>, role |-> <<"cto">>,
       last_contact |-> Null, next_event |-> <<"demo">>, metadata |-> MetaNull],
      [name |-> N_AbCa, email |-> Null, role |-> Null,
       last_contact |-> Null, next_event |-> Null, metadata |-> MetaObject(<<>>, Null)],
      [name |-> N_AbBaCa, email |-> Null, role |-> Null,
       last_contact |-> <<"may">>, next_event |-> Null, metadata |-> MetaNull],
      [name |-> <<>>, email |-> <<"d", "a", "@", "x">>, role |-> Null,
       last_contact |-> Null, next_event |-> Null, metadata |-> MetaNull] }

SnippetText == <<"x", " ", "A", "b", " ", "B", "a">>

SnippetPool ==
    { [text |-> SnippetText, tags |-> <<"[", "]">>,
       metadata |-> MetaObject(<<N_Da>>, Null)],
      [text |-> SnippetText, tags |-> Null, metadata |-> MetaNull],
      [text |-> SnippetText, tags |-> <<"[", "]">>, metadata |-> MetaInvalid] }

ProjectPool ==
    { [name |-> N_Da, status |-> <<"active">>, tags |-> <<"[", "]">>,
       metadata |-> MetaObject(<<>>, N_AbBa)],
      [name |-> N_Da, status |-> Null, tags |-> Null, metadata |-> MetaNull],
      [name |-> N_Da, status |-> <<"active">>, tags |-> <<"[", "]">>,
       metadata |-> MetaInvalid] }

AbbreviationPool ==
    { [abbr |-> <<"D", "A">>, full |-> <<"data", " ", "api">>, category |-> <<"tech">>],
      [abbr |-> <<"D", "A">>, full |-> <<"data", " ", "api">>, category |-> Null],
      [abbr |-> <<"j", "t", "-", "1">>, full |-> <<"ticket">>, category |-> Null] }

\* relationship rows: endpoints that resolve, that dangle when the store is
\* smaller, and one whose type has no table
EdgePool ==
    { [from_type |-> "contact", from_id |-> 1, to_type |-> "contact", to_id |-> 2,
       relationship_type |-> "knows", strength |-> 1],
      [from_type |-> "contact", from_id |-> 2, to_type |-> "contact", to_id |-> 1,
       relationship_type |-> "reports_to", strength |-> 2],
      [from_type |-> "contact", from_id |-> 1, to_type |-> "contact", to_id |-> 1,
       relationship_type |-> "self", strength |-> 3],
      [from_type |-> "snippet", from_id |-> 1, to_type |-> "contact", to_id |-> 1,
       relationship_type |-> "mentions", strength |-> 4],
      [from_type |-> "contact", from_id |-> 1, to_type |-> "ghost", to_id |-> 1,
       relationship_type |-> "haunts", strength |-> 5],
      [from_type |-> "project", from_id |-> 1, to_type |-> "contact", to_id |-> 2,
       relationship_type |-> "led_by", strength |-> 6] }

SeqsUpTo(S, n) == UNION {[1..k -> S] : k \in 0..n}

\* INSERT of the rows in order: row i gets id i
WithIds(rows) == [i \in DOMAIN rows |-> rows[i] @@ [id |-> i]]

\* the tables the analyzer can address
TableNames == {"contacts", "snippets", "projects", "abbreviations", "relationships"}

RowCount(d) ==
    Len(d.contacts) + Len(d.snippets) + Len(d.projects)
        + Len(d.abbreviations) + Len(d.relationships)

Stores ==
    { d \in [contacts      : {WithIds(r) : r \in SeqsUpTo(ContactPool, MaxContacts)},
             snippets      : {WithIds(r) : r \in SeqsUpTo(SnippetPool, MaxSnippets)},
             projects      : {WithIds(r) : r \in SeqsUpTo(ProjectPool, MaxProjects)},
             abbreviations : {WithIds(r) : r \in SeqsUpTo(AbbreviationPool, MaxAbbreviations)},
             relationships : {WithIds(r) : r \in SeqsUpTo(EdgePool, MaxEdges)}] :
        RowCount(d) <= MaxRows }

(***************************************************************************)
(* ContextAnalyzer helpers                                                 *)
(***************************************************************************)
\* an Optional value: <<>> for None, <<v>> for v
None == <<>>

Some(v) == <<v>>

\* _row_to_dict: the columns of the row under their names
RowToDict(row) == row

\* dict.get('type') / dict.get('data', {}) of a result item
ItemType(item) == IF "type" \in DOMAIN item THEN item.type ELSE ""

ItemData(item) == IF "data" \in DOMAIN item THEN item.data ELSE [x \in {} |-> 0]

\* _entity_key: None for a falsy type, (type, int(id)) when the data has an
\* id, (type, json.dumps(data, sort_keys=True)) otherwise; ser carries the
\* serialized data of the fallback
EntityKey(entity_type, data) ==
    IF entity_type = "" THEN [t |-> "", kind |-> "none", id |-> 0, ser |-> <<>>]
    ELSE IF "id" \in DOMAIN data
         THEN [t |-> entity_type, kind |-> "id", id |-> data.id, ser |-> <<>>]
         ELSE [t |-> entity_type, kind |-> "json", id |-> 0, ser |-> <<data>>]

\* _dedupe_entities: the loop from item i on, with the keys seen so far
RECURSIVE DedupeFrom(_, _, _, _)
DedupeFrom(items, i, seen, deduped) ==
    IF i > Len(items) THEN deduped
    ELSE LET key == EntityKey(ItemType(items[i]), ItemData(items[i]))
         IN  IF key \notin seen
             THEN DedupeFrom(items, i + 1, seen \cup {key}, Append(deduped, items[i]))
             ELSE DedupeFrom(items, i + 1, seen, deduped)

\* a variant that keeps every item
DedupeEntities_KeepAll(items) == items

\* a variant that never records the key of the first item
DedupeEntities_FirstUnseen(items) ==
    IF items = <<>> THEN <<>> ELSE DedupeFrom(items, 2, {}, <<items[1]>>)

DedupeEntities(items) == DedupeFrom(items, 1, {}, <<>>)

\* list.sort(key=score, reverse=True): stable, so among equal scores the
\* earlier element stays first; sc[i] is the score of seq[i], rem the
\* indexes still to place
RECURSIVE SortedIndexes(_, _)
SortedIndexes(sc, rem) ==
    IF rem = {} THEN <<>>
    ELSE LET m     == SetMax({sc[i] : i \in rem})
             first == CHOOSE i \in rem :
                          sc[i] = m /\ \A j \in rem : sc[j] = m => i <= j
         IN  <<first>> \o SortedIndexes(sc, rem \ {first})

SortByScoreDesc(seq, sc) ==
    LET p == SortedIndexes(sc, DOMAIN seq)
    IN  [k \in DOMAIN seq |-> seq[p[k]]]

(***************************************************************************)
(* _match_person_to_contact                                                *)
(***************************************************************************)
\* the else branch: one point per name part of length >= 2 found in the
\* contact name, parts taken from index i on
RECURSIVE PartScore(_, _, _)
PartScore(name_parts, i, contact_name_lower) ==
    IF i > Len(name_parts) THEN 0
    ELSE (IF Len(name_parts[i]) >= 2
             /\ Contains(contact_name_lower, Lower(name_parts[i]))
          THEN 1 ELSE 0)
         + PartScore(name_parts, i + 1, contact_name_lower)

\* a variant that scores by name parts only
ContactScore_PartsOnly(person_name, contact_name) ==
    PartScore(Split(person_name), 1, Lower(contact_name))

ContactScore(person_name, contact_name) ==
    LET contact_name_lower == Lower(contact_name)
        person_name_lower  == Lower(person_name)
    IN  IF person_name_lower = contact_name_lower THEN 10
        ELSE IF \/ Contains(contact_name_lower, person_name_lower)
                \/ Contains(person_name_lower, contact_name_lower)
             THEN 8
             ELSE PartScore(Split(person_name), 1, contact_name_lower)

\* the loop over SELECT * FROM contacts, from row i on
RECURSIVE ScoreContactsFrom(_, _, _)
ScoreContactsFrom(contacts, i, person_name) ==
    IF i > Len(contacts) THEN <<>>
    ELSE LET contact == RowToDict(contacts[i])
             score   == ContactScore(person_name, contact.name)
             rest    == ScoreContactsFrom(contacts, i + 1, person_name)
         IN  IF contact.name = <<>> THEN rest
             ELSE IF score > 0
                  THEN <<[contact |-> contact, score |-> score]>> \o rest
                  ELSE rest

MatchPersonToContact(d, person_name) ==
    LET matches == ScoreContactsFrom(d.contacts, 1, person_name)
    IN  SortByScoreDesc(matches, [i \in DOMAIN matches |-> matches[i].score])

(***************************************************************************)
(* _find_persons_in_text.  person_names is list(set(...)): the extracted   *)
(* names in the iteration order of the set, which the string hash seed of  *)
(* the process decides; the callers pass it as a sequence.                 *)
(***************************************************************************)
\* the orders a set of names can be iterated in
Orders(S) == {o \in [1..Cardinality(S) -> S] : Range(o) = S}

\* all_matches[contact_id] = (contact, score) when score beats the entry;
\* the dict keeps the position of a key that is already present
RECURSIVE MergeMatches(_, _, _)
MergeMatches(all_matches, matches, i) ==
    IF i > Len(matches) THEN all_matches
    ELSE LET m    == matches[i]
             hits == {k \in DOMAIN all_matches : all_matches[k].contact.id = m.contact.id}
             upd  == IF hits = {} THEN Append(all_matches, m)
                     ELSE LET k == CHOOSE k \in hits : TRUE
                          IN  IF m.score > all_matches[k].score
                              THEN [all_matches EXCEPT ![k] = m]
                              ELSE all_matches
         IN  MergeMatches(upd, matches, i + 1)

\* the loop over person_names, from name i on
RECURSIVE AllMatchesFrom(_, _, _, _)
AllMatchesFrom(d, person_names, i, all_matches) ==
    IF i > Len(person_names) THEN all_matches
    ELSE AllMatchesFrom(d, person_names, i + 1,
             MergeMatches(all_matches, MatchPersonToContact(d, person_names[i]), 1))

MatchReason(score) == <<"Found name in text (score: ", ToString(score), ")">>

\* a variant that looks up the first extracted name only
FindPersonsInText_FirstNameOnly(d, person_names) ==
    LET first_name  == SubSeq(person_names, 1, IF person_names = <<>> THEN 0 ELSE 1)
        all_matches == AllMatchesFrom(d, first_name, 1, <<>>)
        results == [k \in DOMAIN all_matches |->
                       [type |-> "contact",
                        data |-> all_matches[k].contact,
                        match_score |-> all_matches[k].score,
                        match_reason |-> MatchReason(all_matches[k].score)]]
    IN  SortByScoreDesc(results, [k \in DOMAIN results |-> results[k].match_score])

FindPersonsInText(d, person_names) ==
    LET all_matches == AllMatchesFrom(d, person_names, 1, <<>>)
        results == [k \in DOMAIN all_matches |->
                       [type |-> "contact",
                        data |-> all_matches[k].contact,
                        match_score |-> all_matches[k].score,
                        match_reason |-> MatchReason(all_matches[k].score)]]
    IN  SortByScoreDesc(results, [k \in DOMAIN results |-> results[k].match_score])

(***************************************************************************)
(* _detect_people_for_save                                                 *)
(***************************************************************************)
RECURSIVE DetectPeopleFrom(_, _, _, _, _)
DetectPeopleFrom(d, person_names, i, seen_contact_ids, detected) ==
    IF i > Len(person_names) THEN detected
    ELSE LET person_name == person_names[i]
             matches     == MatchPersonToContact(d, person_name)
         IN  IF matches # <<>>
             THEN LET best == matches[1]
                      contact_id == best.contact.id
                  IN  IF contact_id \in seen_contact_ids
                      THEN DetectPeopleFrom(d, person_names, i + 1,
                                            seen_contact_ids, detected)
                      ELSE DetectPeopleFrom(d, person_names, i + 1,
                               seen_contact_ids \cup {contact_id},
                               Append(detected,
                                   [name |-> person_name, exists |-> TRUE,
                                    contact_id |-> Some(contact_id),
                                    contact_name |-> best.contact.name,
                                    score |-> best.score]))
             ELSE DetectPeopleFrom(d, person_names, i + 1, seen_contact_ids,
                      Append(detected,
                          [name |-> person_name, exists |-> FALSE,
                           contact_id |-> None]))

\* a variant that reports every name with its best contact
DetectPeopleForSave_EveryName(d, person_names) ==
    [i \in DOMAIN person_names |->
        LET matches == MatchPersonToContact(d, person_names[i])
        IN  IF matches # <<>>
            THEN [name |-> person_names[i], exists |-> TRUE,
                  contact_id |-> Some(matches[1].contact.id),
                  contact_name |-> matches[1].contact.name,
                  score |-> matches[1].score]
            ELSE [name |-> person_names[i], exists |-> FALSE, contact_id |-> None]]

DetectPeopleForSave(d, person_names) ==
    DetectPeopleFrom(d, person_names, 1, {}, <<>>)

(***************************************************************************)
(* _find_exact_matches, _find_abbreviation                                 *)
(***************************************************************************)
\* rows as items of a type
AsItems(rows, type) ==
    [i \in DOMAIN rows |-> [type |-> type, data |-> RowToDict(rows[i])]]

\* a variant that compares the whole column with the text
FindExactMatches_WholeField(d, text) ==
    LET ContactHit(r) == Lower(r.name) = Lower(text) \/ Lower(r.email) = Lower(text)
        SnippetHit(r) == Lower(r.text) = Lower(text) \/ Lower(r.tags) = Lower(text)
        ProjectHit(r) == Lower(r.name) = Lower(text) \/ Lower(r.tags) = Lower(text)
    IN  AsItems(SelectSeq(d.contacts, ContactHit), "contact")
            \o AsItems(SelectSeq(d.snippets, SnippetHit), "snippet")
            \o AsItems(SelectSeq(d.projects, ProjectHit), "project")

\* the three SELECT ... WHERE a LIKE ? OR b LIKE ? with '%text%', each in
\* table order
FindExactMatches(d, text) ==
    LET ContactHit(r) == LikeContains(r.name, text) \/ LikeContains(r.email, text)
        SnippetHit(r) == LikeContains(r.text, text) \/ LikeContains(r.tags, text)
        ProjectHit(r) == LikeContains(r.name, text) \/ LikeContains(r.tags, text)
    IN  AsItems(SelectSeq(d.contacts, ContactHit), "contact")
            \o AsItems(SelectSeq(d.snippets, SnippetHit), "snippet")
            \o AsItems(SelectSeq(d.projects, ProjectHit), "project")

\* SQL UPPER() on one character
UpperChar(c) ==
    CASE c = "a" -> "A"
      [] c = "b" -> "B"
      [] c = "c" -> "C"
      [] c = "d" -> "D"
      [] c = "h" -> "H"
      [] c = "j" -> "J"
      [] c = "p" -> "P"
      [] c = "s" -> "S"
      [] c = "t" -> "T"
      [] c = "x" -> "X"
      [] OTHER -> c

Upper(s) == [i \in 1..Len(s) |-> UpperChar(s[i])]

\* str.strip(): without leading and trailing whitespace
RECURSIVE StripRight(_)
StripRight(s) ==
    IF s # <<>> /\ s[Len(s)] = Space THEN StripRight(SubSeq(s, 1, Len(s) - 1)) ELSE s

Strip(s) == StripRight(SubSeq(s, SkipSpaces(s, 1), Len(s)))

\* a variant that compares the text as it was selected
FindAbbreviation_Untrimmed(d, text) ==
    LET Hit(r) == Upper(r.abbr) = Upper(text)
        hits == SelectSeq(d.abbreviations, Hit)
    IN  IF hits = <<>> THEN None ELSE Some(RowToDict(hits[1]))

\* WHERE UPPER(abbr) = UPPER(?), fetchone()
FindAbbreviation(d, text) ==
    LET Hit(r) == Upper(r.abbr) = Upper(Strip(text))
        hits == SelectSeq(d.abbreviations, Hit)
    IN  IF hits = <<>> THEN None ELSE Some(RowToDict(hits[1]))

(***************************************************************************)
(* _fetch_entity, _get_related_items                                       *)
(***************************************************************************)
\* f"{entity_type}s"
TableName(entity_type) ==
    CASE entity_type = "contact" -> "contacts"
      [] entity_type = "snippet" -> "snippets"
      [] entity_type = "project" -> "projects"
      [] entity_type = "abbreviation" -> "abbreviations"
      [] entity_type = "relationship" -> "relationships"
      [] OTHER -> "no_such_table"

\* SELECT * FROM table WHERE id = ?, fetchone(); sqlite3.OperationalError
\* (no such table) is caught and gives None
FetchEntity(d, entity_type, entity_id) ==
    LET table_name == TableName(entity_type)
    IN  IF table_name \notin TableNames THEN None
        ELSE LET Hit(r) == r.id = entity_id
                 rows == SelectSeq(d[table_name], Hit)
             IN  IF rows = <<>> THEN None ELSE Some(RowToDict(rows[1]))

\* a variant that leaves the label as it is
InverseLabel_Plain(relationship_type) == <<relationship_type>>

\* f'inverse_{relationship_type}'
InverseLabel(relationship_type) == <<"inverse_", relationship_type>>

\* one loop over fetched relationship rows: out = TRUE follows to_*, FALSE
\* follows from_* and prefixes the label with inverse_
RECURSIVE RelatedOfRows(_, _, _, _, _)
RelatedOfRows(d, rel_rows, i, out, exclude_keys) ==
    IF i > Len(rel_rows) THEN <<>>
    ELSE LET rel_row  == rel_rows[i]
             etype    == IF out THEN rel_row.to_type ELSE rel_row.from_type
             eid      == IF out THEN rel_row.to_id ELSE rel_row.from_id
             entity   == FetchEntity(d, etype, eid)
             rest     == RelatedOfRows(d, rel_rows, i + 1, out, exclude_keys)
         IN  IF entity = None THEN rest
             ELSE IF exclude_keys # {} /\ EntityKey(etype, entity[1]) \in exclude_keys
                  THEN rest
                  ELSE <<[type |-> etype,
                          data |-> entity[1],
                          relationship |->
                              IF out THEN <<rel_row.relationship_type>>
                              ELSE InverseLabel(rel_row.relationship_type),
                          strength |-> rel_row.strength]>> \o rest

\* the loop over matches, from match i on
RECURSIVE RelatedFrom(_, _, _, _)
RelatedFrom(d, matches, i, exclude_keys) ==
    IF i > Len(matches) THEN <<>>
    ELSE LET match_type == matches[i].type
             match_id   == matches[i].data.id
             Outgoing(r) == r.from_type = match_type /\ r.from_id = match_id
             Incoming(r) == r.to_type = match_type /\ r.to_id = match_id
         IN  RelatedOfRows(d, SelectSeq(d.relationships, Outgoing), 1, TRUE, exclude_keys)
                 \o RelatedOfRows(d, SelectSeq(d.relationships, Incoming), 1, FALSE, exclude_keys)
                 \o RelatedFrom(d, matches, i + 1, exclude_keys)

GetRelatedItems(d, matches, exclude_keys) == RelatedFrom(d, matches, 1, exclude_keys)

(***************************************************************************)
(* _generate_smart_context, _generate_insights.  A built string is the     *)
(* sequence of its pieces: literal fragments and the characters of the     *)
(* interpolated columns.                                                   *)
(***************************************************************************)
\* a variant that takes every column value as set
Truthy_Always(s) == TRUE

\* truthiness of a text column: neither None nor ''
Truthy(s) == s # Null /\ s # <<>>

\* sep.join(parts)
RECURSIVE Join(_, _)
Join(parts, sep) ==
    IF parts = <<>> THEN <<>>
    ELSE IF Len(parts) = 1 THEN parts[1]
         ELSE parts[1] \o sep \o Join(Tail(parts), sep)

\* json.loads(row.get('metadata', '{}')): the column exists in every row, so
\* the default is never used; None raises TypeError, a text that is not
\* JSON raises JSONDecodeError
JsonLoadsRaises(metadata) ==
    CASE metadata.kind = "null" -> "TypeError"
      [] metadata.kind = "invalid" -> "JSONDecodeError"
      [] OTHER -> "none"

ItemsOfType(items, type) ==
    LET Is(m) == m.type = type
    IN  SelectSeq(items, Is)

FirstN(seq, n) == SubSeq(seq, 1, IF Len(seq) < n THEN Len(seq) ELSE n)

NamesOf(items) == [i \in DOMAIN items |-> items[i].data.name]

\* text_type.replace('_', ' ') on a type name of PATTERNS
ReplaceUnderscores(s) == IF s = "jira_ticket" THEN "jira ticket" ELSE s

\* a variant with nothing to say
NoContext_Empty == <<>>

NoContext == <<"No additional context found.">>

\* the result is [raised, value]: raised names the exception that leaves
\* the function, "none" when it returns value
GenerateSmartContext(text, text_type, exact_matches, related_items, abbreviation) ==
    IF abbreviation # None
    THEN LET a == abbreviation[1]
             head == <<"'">> \o a.abbr \o <<"' stands for ">> \o a.full \o <<".">>
         IN  [raised |-> "none",
              value |-> IF Truthy(a.category)
                        THEN Join(<<head, <<"Category: ">> \o a.category>>, <<" ">>)
                        ELSE head]
    ELSE
    LET type_part ==
            IF text_type # None
            THEN <<<<"This looks like a ", ReplaceUnderscores(text_type[1]), ".">>>>
            ELSE <<>>
        contacts == ItemsOfType(exact_matches, "contact")
        contact_part ==
            IF contacts = <<>> THEN <<>>
            ELSE LET contact == contacts[1].data
                     parts ==
                         (IF Truthy(contact.role) THEN <<contact.role>> ELSE <<>>)
                         \o (IF Truthy(contact.last_contact)
                             THEN <<<<"Last contact: ">> \o contact.last_contact>> ELSE <<>>)
                         \o (IF Truthy(contact.next_event)
                             THEN <<<<"Upcoming: ">> \o contact.next_event>> ELSE <<>>)
                 IN  IF parts # <<>>
                     THEN <<contact.name \o <<": ">> \o Join(parts, <<", ">>)>>
                     ELSE <<>>
        projects == ItemsOfType(exact_matches, "project")
        project_raised ==
            IF projects = <<>> THEN "none"
            ELSE JsonLoadsRaises(projects[1].data.metadata)
        project_part ==
            IF projects = <<>> THEN <<>>
            ELSE LET project == projects[1].data
                     metadata == project.metadata
                     parts ==
                         (IF Truthy(project.status)
                          THEN <<<<"Status: ">> \o project.status>> ELSE <<>>)
                         \o (IF Truthy(metadata.team_lead)
                             THEN <<<<"Lead: ">> \o metadata.team_lead>> ELSE <<>>)
                 IN  <<<<"Project '">> \o project.name \o <<"': ">> \o Join(parts, <<", ">>)>>
        related_contacts == ItemsOfType(related_items, "contact")
        related_part ==
            IF related_contacts # <<>>
            THEN <<<<"Related to: ">> \o Join(NamesOf(FirstN(related_contacts, 3)), <<", ">>)>>
            ELSE <<>>
        context_parts == type_part \o contact_part \o project_part \o related_part
    IN  IF project_raised # "none" THEN [raised |-> project_raised, value |-> <<>>]
        ELSE [raised |-> "none",
              value |-> IF context_parts # <<>> THEN Join(context_parts, <<" ">>)
                        ELSE NoContext]

\* the loop over the snippet matches, from snippet i on: [raised, value]
RECURSIVE SnippetInsightsFrom(_, _)
SnippetInsightsFrom(snippets, i) ==
    IF i > Len(snippets) THEN [raised |-> "none", value |-> <<>>]
    ELSE LET metadata == snippets[i].data.metadata
             raised   == JsonLoadsRaises(metadata)
             rest     == SnippetInsightsFrom(snippets, i + 1)
         IN  IF raised # "none" THEN [raised |-> raised, value |-> <<>>]
             ELSE IF rest.raised # "none" THEN rest
             ELSE [raised |-> "none",
                   value |->
                       (IF metadata.linked_projects # <<>>
                        THEN <<<<"This is related to: ">>
                                   \o Join(metadata.linked_projects, <<", ">>)>>
                        ELSE <<>>) \o rest.value]

GenerateInsights(exact_matches, related_items) ==
    LET contacts == ItemsOfType(exact_matches, "contact")
        WithEvent(m) == Truthy(m.data.next_event)
        upcoming == SelectSeq(contacts, WithEvent)
        events == [i \in DOMAIN upcoming |->
                      <<"Upcoming event with ">> \o upcoming[i].data.name
                          \o <<": ">> \o upcoming[i].data.next_event]
        linked == SnippetInsightsFrom(ItemsOfType(exact_matches, "snippet"), 1)
        contact_relations == ItemsOfType(related_items, "contact")
        people ==
            IF Len(contact_relations) > 1
            THEN <<<<"Multiple people involved: ">>
                       \o Join(NamesOf(FirstN(contact_relations, 3)), <<", ">>)>>
            ELSE <<>>
    IN  IF linked.raised # "none" THEN linked
        ELSE [raised |-> "none", value |-> events \o linked.value \o people]

(***************************************************************************)
(* ActionSuggester.suggest_actions (action_suggester.py) as api.py builds  *)
(* it, ActionSuggester() without a configuration file: pattern_actions,    *)
(* database_actions and universal_actions are empty, so the built-in       *)
(* actions apply.                                                          *)
(***************************************************************************)
\* patterns[type][0] if type in patterns else text
FirstMatchOr(patterns, type, text) ==
    LET hits == {n \in DOMAIN patterns : patterns[n].type = type}
    IN  IF hits = {} THEN text ELSE patterns[CHOOSE n \in hits : TRUE].matches[1]

Action(label, type, value, icon) ==
    [label |-> label, type |-> type, value |-> value, icon |-> icon]

\* the built-in actions of the detected type
PatternActions(text, text_type, patterns) ==
    IF text_type = <<"jira_ticket">>
    THEN LET jira_id == FirstMatchOr(patterns, "jira_ticket", text)
         IN  <<Action(<<"Open in Jira">>, "url",
                      <<"https://jira.company.com/browse/">> \o jira_id, "external-link"),
               Action(<<"Copy ticket ID">>, "copy", jira_id, "clipboard")>>
    ELSE IF text_type = <<"email">>
    THEN LET email == FirstMatchOr(patterns, "email", text)
         IN  <<Action(<<"Send email">>, "url", <<"mailto:">> \o email, "mail"),
               Action(<<"Copy email">>, "copy", email, "clipboard")>>
    ELSE IF text_type = <<"url">>
    THEN LET url == FirstMatchOr(patterns, "url", text)
         IN  <<Action(<<"Open URL">>, "url", url, "external-link"),
               Action(<<"Copy URL">>, "copy", url, "clipboard")>>
    ELSE IF text_type = <<"phone">>
    THEN LET phone == FirstMatchOr(patterns, "phone", text)
         IN  <<Action(<<"Call">>, "url", <<"tel:">> \o phone, "phone"),
               Action(<<"Copy number">>, "copy", phone, "clipboard")>>
    ELSE <<>>

\* the built-in action of each matched contact that has an email
RECURSIVE MatchActionsFrom(_, _)
MatchActionsFrom(exact_matches, i) ==
    IF i > Len(exact_matches) THEN <<>>
    ELSE LET match == exact_matches[i]
             rest  == MatchActionsFrom(exact_matches, i + 1)
         IN  IF match.type = "contact" /\ Truthy(match.data.email)
             THEN <<Action(<<"Email ">> \o match.data.name, "url",
                           <<"mailto:">> \o match.data.email, "mail")>> \o rest
             ELSE rest

\* a variant that keeps every action
UniqueActionsFrom_KeepAll(actions, i, seen_labels) == SubSeq(actions, i, Len(actions))

\* the first action of each label
RECURSIVE UniqueActionsFrom(_, _, _)
UniqueActionsFrom(actions, i, seen_labels) ==
    IF i > Len(actions) THEN <<>>
    ELSE IF actions[i].label \notin seen_labels
         THEN <<actions[i]>>
                  \o UniqueActionsFrom(actions, i + 1, seen_labels \cup {actions[i].label})
         ELSE UniqueActionsFrom(actions, i + 1, seen_labels)

SuggestActions(text, text_type, exact_matches, patterns) ==
    UniqueActionsFrom(PatternActions(text, text_type, patterns)
                          \o MatchActionsFrom(exact_matches, 1), 1, {})

(***************************************************************************)
(* The optional semantic searcher (semantic_searcher.py).  The embedding   *)
(* model is outside the repository: each loaded embedding carries the      *)
(* similarity (in tenths) the model gives it for the query.                *)
(***************************************************************************)
SimilarityThreshold == 5

SemanticLimit == 5

Searchers ==
    { [embeddings |-> <<[type |-> "contact", id |-> 1, text |-> N_AbBa, similarity |-> 4],
                        [type |-> "snippet", id |-> 1, text |-> SnippetText, similarity |-> 7]>>] }

\* SemanticSearcher.find_similar: sort by similarity (descending), keep the
\* first limit, drop those under the threshold; it reads, and writes nothing
FindSimilar(searcher, query, limit) ==
    LET e == searcher.embeddings
        sorted == SortByScoreDesc(e, [i \in DOMAIN e |-> e[i].similarity])
        Passes(x) == x.similarity >= SimilarityThreshold
    IN  SelectSeq(FirstN(sorted, limit), Passes)

(***************************************************************************)
(* analyze                                                                 *)
(***************************************************************************)
\* a variant that collects no key
KeysOf_Empty(items) == {}

\* exact_match_keys: the keys of the items
KeysOf(items) == {EntityKey(ItemType(items[i]), ItemData(items[i])) : i \in DOMAIN items}

\* a variant that leaves the person matches out
ExtendMatches_ExactOnly(exact_matches, person_matches) == exact_matches

\* a variant that puts the person matches first
ExtendMatches_PersonFirst(exact_matches, person_matches) == person_matches \o exact_matches

\* exact_matches.extend(person_matches)
ExtendMatches(exact_matches, person_matches) == exact_matches \o person_matches

\* steps 5 to 8 and the return: the result is [raised, ret], ret = <<dict>>
\* when analyze returns and <<>> when smart_context or insights raised
AnalyzeReturn(selected_text, text_type, patterns, abbreviation, exact_matches, semantic_matches, related_items, smart_context, actions, insights, detected_people) ==
    IF smart_context.raised # "none"
    THEN [raised |-> smart_context.raised, ret |-> <<>>]
    ELSE IF insights.raised # "none"
    THEN [raised |-> insights.raised, ret |-> <<>>]
    ELSE [raised |-> "none",
          ret |-> <<[selected_text    |-> selected_text,
                     detected_type    |-> text_type,
                     patterns         |-> patterns,
                     abbreviation     |-> abbreviation,
                     exact_matches    |-> exact_matches,
                     semantic_matches |-> semantic_matches,
                     related_items    |-> related_items,
                     smart_context    |-> smart_context.value,
                     actions          |-> actions,
                     insights         |-> insights.value,
                     detected_people  |-> detected_people]>>]

\* steps 5 to 8 with the related items of step 4
AnalyzeRelated(d, sem, selected_text, person_names, patterns, text_type, exact_matches, abbreviation, related_items) ==
    AnalyzeReturn(selected_text, text_type, patterns, abbreviation, exact_matches,
                  IF sem # None THEN FindSimilar(sem[1], selected_text, SemanticLimit)
                  ELSE <<>>,
                  related_items,
                  GenerateSmartContext(selected_text, text_type, exact_matches,
                                       related_items, abbreviation),
                  SuggestActions(selected_text, text_type, exact_matches, patterns),
                  GenerateInsights(exact_matches, related_items),
                  DetectPeopleForSave(d, person_names))

\* steps 2.5 to 4 with the deduplicated matches of step 2
AnalyzeMatched(d, sem, selected_text, person_names, patterns, text_type, exact_matches) ==
    AnalyzeRelated(d, sem, selected_text, person_names, patterns, text_type,
                   exact_matches,
                   FindAbbreviation(d, selected_text),
                   DedupeEntities(GetRelatedItems(d, exact_matches, KeysOf(exact_matches))))

\* analyze(selected_text) on store d with searcher sem (None when not
\* configured); person_names is the iteration order of the extracted names
AnalyzeResult(d, sem, selected_text, person_names) ==
    AnalyzeMatched(d, sem, selected_text, person_names,
                   Detect(selected_text),
                   GetType(selected_text),
                   DedupeEntities(ExtendMatches(FindExactMatches(d, selected_text),
                                                FindPersonsInText(d, person_names))))

\* the selected texts
T_AbBa == N_AbBa

T_ba == <<"b", "a">>

T_Da == N_Da

T_Two == N_AbBa \o <<" ", "x", " ">> \o N_AbCa

T_Three == N_AbBaCa

T_x == <<"x">>

T_cc == <<"c", "c">>

T_Jira == <<"J", "T", "-", "1">>

N_JaTa == <<"J", "a", " ", "T", "a">>

\* a sentence: a capitalized verb, a name, a lowercase word, a second name
T_Met == <<"T", "a", " ">> \o N_AbBa \o <<" ", "x", " ">> \o N_JaTa \o <<" ", "x">>

\* one token of a contact's name
T_Ab == <<"A", "b">>

Texts == {T_AbBa, T_ba, T_Da, T_Two, T_Three, T_x, T_cc, T_Jira, T_Met, T_Ab}

\* a variant that saves the selected text as a snippet
StoreAfterAnalyze_Saves(d, selected_text) ==
    [d EXCEPT !.snippets =
        Append(@, [id |-> Len(@) + 1, text |-> selected_text, tags |-> Null,
                   metadata |-> MetaNull])]

\* every db.execute of analyze and of find_similar is a SELECT: the store
\* after the call
StoreAfterAnalyze(d, selected_text) == d

\* no call in progress: the caller holds no result
Idle == [op |-> "idle"]

Init ==
    /\ db \in Stores
    /\ semantic \in {None} \cup {Some(s) : s \in Searchers}
    /\ last = Idle
    /\ InitEnv

\* a caller (api.py analyze_text, widget_mode.py check_clipboard) calls
\* analyze and holds what comes back: the result or the exception
Analyze ==
    /\ last = Idle
    /\ \E text \in Texts :
        \E order \in Orders(ExtractPersonNames(text)) :
            /\ last' = [op |-> "analyze", text |-> text, order |-> order]
                           @@ AnalyzeResult(db, semantic, text, order)
            /\ db' = StoreAfterAnalyze(db, text)
            /\ UNCHANGED <<semantic, env>>

\* the caller is done with what the call gave back
Return ==
    /\ last # Idle
    /\ last' = Idle
    /\ UNCHANGED <<db, semantic, env>>

Next ==
    \/ Analyze
    \/ Return

Spec == Init /\ [][Next]_vars

(***************************************************************************)
(* _dedupe_entities applied to lists of result items                       *)
(***************************************************************************)
MaxItems == 3

\* items as the analyzer builds them (plain, person-scored, graph
\* neighbour), one whose data has no id and one without a type
DedupeItemPool ==
    { [type |-> "contact", data |-> [id |-> 1, name |-> N_AbBa]],
      [type |-> "contact", data |-> [id |-> 1, name |-> N_AbBa],
       match_score |-> 10, match_reason |-> MatchReason(10)],
      [type |-> "contact", data |-> [id |-> 2, name |-> N_AbCa],
       relationship |-> <<"knows">>, strength |-> 1],
      [type |-> "snippet", data |-> [id |-> 1, name |-> SnippetText]],
      [type |-> "contact", data |-> [name |-> N_AbBa]],
      [data |-> [id |-> 1, name |-> N_AbBa]] }

EmptyStore ==
    [contacts |-> <<>>, snippets |-> <<>>, projects |-> <<>>,
     abbreviations |-> <<>>, relationships |-> <<>>]

InitDedupe ==
    /\ db = EmptyStore
    /\ semantic = None
    /\ last = Idle
    /\ InitEnv

DedupeCall ==
    /\ last = Idle
    /\ \E items \in SeqsUpTo(DedupeItemPool, MaxItems) :
           last' = [op |-> "dedupe", items |-> items, out |-> DedupeEntities(items)]
    /\ UNCHANGED <<db, semantic, env>>

NextDedupe ==
    \/ DedupeCall
    \/ Return

SpecDedupe == InitDedupe /\ [][NextDedupe]_vars

(***************************************************************************)
(* _match_person_to_contact applied to query names                         *)
(***************************************************************************)
\* a query name of eight tokens
Q_Eight ==
    <<"A", "b", " ", "A", "b", " ", "A", "b", " ", "A", "b", " ",
      "A", "b", " ", "A", "b", " ", "A", "b", " ", "A", "b">>

Queries ==
    { N_AbBa,
      Q_Eight,
      <<"a", "b", " ", "b", "a">>,
      <<"A", "b">>,
      <<"B", " ", "A", "b">>,
      <<"C", "a", " ", " ", "A", "b">>,
      <<"A", "b", " ", "A", "b", " ", "D", "a">>,
      N_Da,
      <<>> }

InitMatch ==
    /\ db \in {d \in Stores : RowCount(d) = Len(d.contacts)}
    /\ semantic = None
    /\ last = Idle
    /\ InitEnv

MatchPersonCall ==
    /\ last = Idle
    /\ \E person_name \in Queries :
           last' = [op |-> "match", person_name |-> person_name,
                    out |-> MatchPersonToContact(db, person_name)]
    /\ UNCHANGED <<db, semantic, env>>

NextMatch ==
    \/ MatchPersonCall
    \/ Return

SpecMatch == InitMatch /\ [][NextMatch]_vars

(***************************************************************************)
(* _get_related_items applied to matched entities and exclude keys         *)
(***************************************************************************)
MaxMatched == 2

\* the rows of the entity tables as matched items
EntityItems(d) ==
    {[type |-> "contact", data |-> d.contacts[i]] : i \in DOMAIN d.contacts}
    \cup {[type |-> "snippet", data |-> d.snippets[i]] : i \in DOMAIN d.snippets}
    \cup {[type |-> "project", data |-> d.projects[i]] : i \in DOMAIN d.projects}

InitRelated ==
    /\ db \in {d \in Stores : d.abbreviations = <<>>}
    /\ semantic = None
    /\ last = Idle
    /\ InitEnv

GetRelatedCall ==
    /\ last = Idle
    /\ \E matches \in SeqsUpTo(EntityItems(db), MaxMatched) :
        \E exclude_keys \in {{}, KeysOf(matches), KeysOf(matches) \cup {[t |-> "contact", kind |-> "id", id |-> 2, ser |-> <<>>]}} :
           last' = [op |-> "related", matches |-> matches, exclude_keys |-> exclude_keys,
                    out |-> GetRelatedItems(db, matches, exclude_keys)]
    /\ UNCHANGED <<db, semantic, env>>

NextRelated ==
    \/ GetRelatedCall
    \/ Return

SpecRelated == InitRelated /\ [][NextRelated]_vars

(***************************************************************************)
(* _find_persons_in_text and _detect_people_for_save applied to texts      *)
(***************************************************************************)
InitPersons ==
    /\ db \in {d \in Stores : RowCount(d) = Len(d.contacts)}
    /\ semantic = None
    /\ last = Idle
    /\ InitEnv

FindPersonsCall ==
    /\ last = Idle
    /\ \E text \in Texts :
        \E order \in Orders(ExtractPersonNames(text)) :
            last' = [op |-> "persons", text |-> text, order |-> order,
                     out |-> FindPersonsInText(db, order)]
    /\ UNCHANGED <<db, semantic, env>>

DetectPeopleCall ==
    /\ last = Idle
    /\ \E text \in Texts :
        \E order \in Orders(ExtractPersonNames(text)) :
            last' = [op |-> "people", text |-> text, order |-> order,
                     out |-> DetectPeopleForSave(db, order)]
    /\ UNCHANGED <<db, semantic, env>>

NextPersons ==
    \/ FindPersonsCall
    \/ DetectPeopleCall
    \/ Return

SpecPersons == InitPersons /\ [][NextPersons]_vars

(***************************************************************************)
(* _extract_person_names applied to texts                                  *)
(***************************************************************************)
MaxPieces == 5

\* what a text is put together from: capitalized words, a two-word name, an
\* all-uppercase word, a lowercase word, whitespace, punctuation, a digit
NamePieces == {<<"A", "b">>, <<"C", "a">>, N_AbBa, <<"A", "B">>, <<"a", "b">>, <<" ">>, <<".">>, <<"1">>}

RECURSIVE Flatten(_)
Flatten(pieces) ==
    IF pieces = <<>> THEN <<>> ELSE Head(pieces) \o Flatten(Tail(pieces))

NameTexts == {Flatten(p) : p \in SeqsUpTo(NamePieces, MaxPieces)}

InitNames ==
    /\ db = EmptyStore
    /\ semantic = None
    /\ last = Idle
    /\ InitEnv

\* list(set(matches)): the names in the order the set is iterated in
ExtractNamesCall ==
    /\ last = Idle
    /\ \E text \in NameTexts :
        \E out \in Orders(ExtractPersonNames(text)) :
            last' = [op |-> "names", text |-> text, out |-> out]
    /\ UNCHANGED <<db, semantic, env>>

NextNames ==
    \/ ExtractNamesCall
    \/ Return

SpecNames == InitNames /\ [][NextNames]_vars

(***************************************************************************)
(* _find_exact_matches applied to stores and search texts                  *)
(***************************************************************************)
\* search texts: substrings in either case, a text that occurs nowhere, the
\* empty text, and texts holding the characters _ and %
ExactQueries ==
    { T_ba, T_Ab, T_cc, T_x, N_Da, <<>>,
      <<"[">>,
      <<"b", "_", "B">>,
      <<"A", "%", "a">>,
      <<"%">> }

InitExact ==
    /\ db \in {d \in Stores : d.abbreviations = <<>> /\ d.relationships = <<>>}
    /\ semantic = None
    /\ last = Idle
    /\ InitEnv

FindExactCall ==
    /\ last = Idle
    /\ \E text \in ExactQueries :
           last' = [op |-> "exact", text |-> text, out |-> FindExactMatches(db, text)]
    /\ UNCHANGED <<db, semantic, env>>

NextExact ==
    \/ FindExactCall
    \/ Return

SpecExact == InitExact /\ [][NextExact]_vars

(***************************************************************************)
(* _find_abbreviation applied to abbreviation tables and texts             *)
(***************************************************************************)
MaxAbbrRows == 2

\* abbreviation rows: one short form in two spellings, a shorter and a
\* longer short form
AbbrRowPool ==
    { [abbr |-> <<"D", "A">>, full |-> <<"data", " ", "api">>, category |-> <<"tech">>],
      [abbr |-> <<"d", "a">>, full |-> <<"data", " ", "api">>, category |-> Null],
      [abbr |-> <<"D">>, full |-> <<"data">>, category |-> Null],
      [abbr |-> <<"D", "A", "B">>, full |-> <<"data", " ", "api">>, category |-> Null] }

\* texts: the short form in several spellings, with whitespace around it,
\* a part of it, a text that holds it, and blank texts
AbbrQueries ==
    { <<"D", "A">>,
      <<"d", "A">>,
      <<" ", "D", "a", " ", " ">>,
      <<" ", "d", "a", "b">>,
      <<"D">>,
      <<"D", " ", "A">>,
      <<"x", "D", "A">>,
      <<" ">>,
      <<>> }

InitAbbr ==
    /\ db \in {[EmptyStore EXCEPT !.abbreviations = WithIds(r)] : r \in SeqsUpTo(AbbrRowPool, MaxAbbrRows)}
    /\ semantic = None
    /\ last = Idle
    /\ InitEnv

FindAbbreviationCall ==
    /\ last = Idle
    /\ \E text \in AbbrQueries :
           last' = [op |-> "abbr", text |-> text, out |-> FindAbbreviation(db, text)]
    /\ UNCHANGED <<db, semantic, env>>

NextAbbr ==
    \/ FindAbbreviationCall
    \/ Return

SpecAbbr == InitAbbr /\ [][NextAbbr]_vars

(***************************************************************************)
(* PatternMatcher instances: add_pattern, detect, get_type                 *)
(***************************************************************************)
MaxMatchers == 3

\* names to register: two new ones and the name of a built-in pattern
PatternNames == {"custom", "other", "email"}

\* regexes to register: 'xx', '\d+' and one that does not compile
RegexPool ==
    { <<One({"X", "x"}), One({"X", "x"})>>,
      <<Rep(Digits, 1, -1)>>,
      <<Unbalanced>> }

P_Mail == <<"a", "b", "@", "x", ".", "c", "c">>

P_Date == <<"2", "0", "2", "0", "-", "0", "1", "-", "0", "1">>

P_Url == <<"h", "t", "t", "p", ":", "/", "/", "x">>

PatternTexts ==
    { T_Jira,
      T_Jira \o <<" ">> \o P_Mail,
      P_Mail \o <<" ">> \o P_Date,
      P_Url \o <<" ">> \o P_Date,
      <<"1", "2", "3", "4", "5", "6", "7", "8", "9", "0">> \o <<" ">> \o P_Date,
      <<"x", "x">>,
      <<"x", "x", " ">> \o P_Date,
      T_cc }

InitPatterns ==
    /\ db = EmptyStore
    /\ semantic = None
    /\ last = Idle
    /\ InitEnv

\* PatternMatcher()
NewMatcherCall ==
    /\ last = Idle
    /\ Len(matchers) < MaxMatchers
    /\ matchers' = Append(matchers, NewMatcher)
    /\ UNCHANGED <<db, semantic, last, class_patterns, callers>>

\* a variant in which the instance gets a dict of its own
AddPatternCall_OwnCopy ==
    /\ last = Idle
    /\ \E m \in DOMAIN matchers, pattern_type \in PatternNames, regex \in RegexPool :
        /\ matchers' = [matchers EXCEPT ![m].PATTERNS = <<SetItem(PatternsOf(m), pattern_type, regex)>>]
        /\ UNCHANGED class_patterns
    /\ UNCHANGED <<db, semantic, last, callers>>

\* m.add_pattern(pattern_type, regex): self.PATTERNS[pattern_type] = regex
\* stores into the dict that self.PATTERNS finds
AddPatternCall ==
    /\ last = Idle
    /\ \E m \in DOMAIN matchers, pattern_type \in PatternNames, regex \in RegexPool :
        IF matchers[m].PATTERNS # <<>>
        THEN /\ matchers' = [matchers EXCEPT ![m].PATTERNS = <<SetItem(@[1], pattern_type, regex)>>]
             /\ UNCHANGED class_patterns
        ELSE /\ class_patterns' = SetItem(class_patterns, pattern_type, regex)
             /\ UNCHANGED matchers
    /\ UNCHANGED <<db, semantic, last, callers>>

\* m.detect(text)
DetectCall ==
    /\ last = Idle
    /\ \E m \in DOMAIN matchers, text \in PatternTexts :
           last' = [op |-> "detect", matcher |-> m, text |-> text] @@ DetectOn(PatternsOf(m), text)
    /\ UNCHANGED <<db, semantic, env>>

\* m.get_type(text)
GetTypeCall ==
    /\ last = Idle
    /\ \E m \in DOMAIN matchers, text \in PatternTexts :
           last' = [op |-> "get_type", matcher |-> m, text |-> text] @@ GetTypeOn(PatternsOf(m), text)
    /\ UNCHANGED <<db, semantic, env>>

NextPatterns ==
    \/ NewMatcherCall
    \/ AddPatternCall
    \/ DetectCall
    \/ GetTypeCall
    \/ Return

SpecPatterns == InitPatterns /\ [][NextPatterns]_vars

(***************************************************************************)
(* suggest_actions applied to texts and lists of matches                   *)
(***************************************************************************)
MaxActionMatches == 3

\* matches as analyze passes them: two contacts of one name with different
\* emails, a contact without email, a project
ActionMatchPool ==
    { [type |-> "contact", data |-> [id |-> 1, name |-> N_AbBa, email |-> <<"a", "b", "@", "x">>]],
      [type |-> "contact", data |-> [id |-> 2, name |-> N_AbBa, email |-> <<"d", "a", "@", "x">>]],
      [type |-> "contact", data |-> [id |-> 3, name |-> N_AbCa, email |-> Null]],
      [type |-> "project", data |-> [id |-> 1, name |-> N_Da, email |-> Null]] }

ActionTexts == {T_Jira, P_Mail, P_Url, T_x}

InitActions ==
    /\ db = EmptyStore
    /\ semantic = None
    /\ last = Idle
    /\ InitEnv

\* analyze step 6: suggest_actions(selected_text, text_type, exact_matches,
\* patterns) with the type and the patterns of step 1
SuggestActionsCall ==
    /\ last = Idle
    /\ \E text \in ActionTexts, exact_matches \in SeqsUpTo(ActionMatchPool, MaxActionMatches) :
           last' = [op |-> "actions", text |-> text, text_type |-> GetType(text), patterns |-> Detect(text), exact_matches |-> exact_matches, out |-> SuggestActions(text, GetType(text), exact_matches, Detect(text))]
    /\ UNCHANGED <<db, semantic, env>>

NextActions ==
    \/ SuggestActionsCall
    \/ Return

SpecActions == InitActions /\ [][NextActions]_vars

(***************************************************************************)
(* Threads on the one connection: Database.connect (database.py),          *)
(* load_data (data_loaders), analyze called from the thread that made the  *)
(* connection and from others (widget_mode.py monitor_clipboard_loop,      *)
(* tests/test_threading.py).  A statement is one step; a thread runs its   *)
(* own statements in order.                                                *)
(***************************************************************************)
\* the thread that calls get_database
MainThread == "main"

Threads == {MainThread, "monitor", "worker"}

\* sqlite3.connect(self.db_path): check_same_thread keeps its default
Connect(thread) == [thread |-> thread, check_same_thread |-> TRUE]

Connection == Connect(MainThread)

\* the check sqlite3 makes before a statement or a commit
\* (sqlite3.ProgrammingError)
WrongThread(c, t) == c.check_same_thread /\ t # c.thread

\* load_data calls begun
MaxLoads == 2

\* the people directory: what _load_people reads from each file, and the
\* targets extract_wikilinks finds in it
PersonFiles ==
    { [name |-> N_AbBa, email |-> <<"a", "b", "@", "x">>, role |-> Null,
       last_contact |-> Null, next_event |-> Null, wikilinks |-> <<N_AbCa>>],
      [name |-> N_AbCa, email |-> Null, role |-> Null,
       last_contact |-> Null, next_event |-> Null, wikilinks |-> <<>>] }

\* the row _load_people inserts for a file: metadata is json.dumps of a dict
ContactRow(file) ==
    [name |-> file.name, email |-> file.email, role |-> file.role,
     last_contact |-> file.last_contact, next_event |-> file.next_event,
     metadata |-> MetaObject(<<>>, Null)]

\* a variant that leaves the table alone when it holds the record already
InsertRow_Once(rows, row) ==
    IF \E i \in DOMAIN rows : rows[i] = row @@ [id |-> rows[i].id]
    THEN rows
    ELSE Append(rows, row @@ [id |-> Len(rows) + 1])

\* INSERT INTO: the row gets the next AUTOINCREMENT id
InsertRow(rows, row) == Append(rows, row @@ [id |-> Len(rows) + 1])

\* REPLACE(s, ' ', '')
RemoveSpaces(s) == SelectSeq(s, LAMBDA c : c # Space)

\* _find_entity_by_name: contacts, then projects, then abbreviations, each
\* with fetchone()
FindEntityByName(d, name) ==
    LET key == RemoveSpaces(Lower(name))
        NameHit(r) == Lower(RemoveSpaces(r.name)) = key
        AbbrHit(r) == Upper(r.abbr) = Upper(name) \/ Lower(RemoveSpaces(r.full)) = key
        contacts == SelectSeq(d.contacts, NameHit)
        projects == SelectSeq(d.projects, NameHit)
        abbreviations == SelectSeq(d.abbreviations, AbbrHit)
    IN  IF contacts # <<>> THEN Some(<<"contact", contacts[1].id>>)
        ELSE IF projects # <<>> THEN Some(<<"project", projects[1].id>>)
        ELSE IF abbreviations # <<>> THEN Some(<<"abbreviation", abbreviations[1].id>>)
        ELSE None

\* the row _resolve_wikilinks inserts
WikilinkRow(from_type, from_id, target) ==
    [from_type |-> from_type, from_id |-> from_id, to_type |-> target[1],
     to_id |-> target[2], relationship_type |-> "wikilink", strength |-> 1]

\* a thread that is in no call
Ready == [pc |-> "ready"]

\* what a call leaves in its thread when it ends
Ended(op, raised, ret) == [pc |-> "ended", op |-> op, raised |-> raised, ret |-> ret]

LoadPcs == {"load_people", "resolve_wikilinks"}

\* a load_data call is between its first statement and its commit
ReloadInProgress == \E u \in Threads : threads[u].pc \in LoadPcs

InitThreads ==
    /\ db = EmptyStore
    /\ semantic = None
    /\ last = Idle
    /\ class_patterns = PATTERNS
    /\ matchers = <<NewMatcher>>
    /\ threads = [t \in Threads |-> Ready]
    /\ loads = [called |-> 0, returned |-> 0]
    /\ monitor = <<>>

\* load_data(db, data_dir, format='markdown'): a new loader; glob gives the
\* files in some order
LoadCall(t) ==
    /\ threads[t] = Ready
    /\ loads.called < MaxLoads
    /\ \E files \in Orders(PersonFiles) :
           threads' = [threads EXCEPT ![t] =
               [pc |-> "load_people", files |-> files, wikilinks_to_resolve |-> <<>>]]
    /\ loads' = [loads EXCEPT !.called = @ + 1]
    /\ UNCHANGED <<db, semantic, last, class_patterns, matchers, monitor>>

\* _load_people, one file: the INSERT, then the file's wikilinks are kept
\* with lastrowid
LoadPerson(t) ==
    /\ threads[t].pc = "load_people"
    /\ threads[t].files # <<>>
    /\ IF WrongThread(Connection, t)
       THEN /\ threads' = [threads EXCEPT ![t] = Ended("load_data", "ProgrammingError", <<>>)]
            /\ UNCHANGED db
       ELSE LET file == Head(threads[t].files)
                person_id == Len(db.contacts) + 1
                links == [i \in DOMAIN file.wikilinks |-> <<"contact", person_id, file.wikilinks[i]>>]
            IN  /\ db' = [db EXCEPT !.contacts = InsertRow(@, ContactRow(file))]
                /\ threads' = [threads EXCEPT ![t].files = Tail(@),
                                              ![t].wikilinks_to_resolve = @ \o links]
    /\ UNCHANGED <<semantic, last, class_patterns, matchers, loads, monitor>>

\* _load_people returns; the other directories hold no file
LoadedPeople(t) ==
    /\ threads[t].pc = "load_people"
    /\ threads[t].files = <<>>
    /\ threads' = [threads EXCEPT ![t] =
           [pc |-> "resolve_wikilinks", wikilinks_to_resolve |-> threads[t].wikilinks_to_resolve]]
    /\ UNCHANGED <<db, semantic, last, class_patterns, matchers, loads, monitor>>

\* _resolve_wikilinks, one link: the SELECTs of _find_entity_by_name and, for
\* a target that exists, the INSERT
ResolveWikilink(t) ==
    /\ threads[t].pc = "resolve_wikilinks"
    /\ threads[t].wikilinks_to_resolve # <<>>
    /\ IF WrongThread(Connection, t)
       THEN /\ threads' = [threads EXCEPT ![t] = Ended("load_data", "ProgrammingError", <<>>)]
            /\ UNCHANGED db
       ELSE LET link == Head(threads[t].wikilinks_to_resolve)
                target == FindEntityByName(db, link[3])
            IN  /\ db' = IF target # None
                         THEN [db EXCEPT !.relationships =
                                  InsertRow(@, WikilinkRow(link[1], link[2], target[1]))]
                         ELSE db
                /\ threads' = [threads EXCEPT ![t].wikilinks_to_resolve = Tail(@)]
    /\ UNCHANGED <<semantic, last, class_patterns, matchers, loads, monitor>>

\* self.db.commit() and the return of load_data
Commit(t) ==
    /\ threads[t].pc = "resolve_wikilinks"
    /\ threads[t].wikilinks_to_resolve = <<>>
    /\ IF WrongThread(Connection, t)
       THEN /\ threads' = [threads EXCEPT ![t] = Ended("load_data", "ProgrammingError", <<>>)]
            /\ UNCHANGED loads
       ELSE /\ threads' = [threads EXCEPT ![t] = Ended("load_data", "none", <<>>)]
            /\ loads' = [loads EXCEPT !.returned = @ + 1]
    /\ UNCHANGED <<db, semantic, last, class_patterns, matchers, monitor>>

ThreadTexts == {T_AbBa, T_x}

\* analyzer.analyze(text), up to its first statement: detect and get_type
\* read no table
AnalyzeCall(t) ==
    /\ threads[t] = Ready
    /\ \E text \in ThreadTexts :
        \E order \in Orders(ExtractPersonNames(text)) :
           threads' = [threads EXCEPT ![t] =
               [pc |-> "find_exact_matches", text |-> text, order |-> order]]
    /\ UNCHANGED <<db, semantic, last, class_patterns, matchers, loads, monitor>>

\* steps 2 and 2.5: the SELECTs of _find_exact_matches and of
\* _find_persons_in_text
AnalyzeMatches(t) ==
    /\ threads[t].pc = "find_exact_matches"
    /\ threads' = [threads EXCEPT ![t] =
           IF WrongThread(Connection, t)
           THEN Ended("analyze", "ProgrammingError", <<>>)
           ELSE [pc |-> "get_related_items", text |-> @.text, order |-> @.order,
                 exact_matches |->
                     DedupeEntities(ExtendMatches(FindExactMatches(db, @.text),
                                                  FindPersonsInText(db, @.order)))]]
    /\ UNCHANGED <<db, semantic, last, class_patterns, matchers, loads, monitor>>

\* steps 3 to 8: the SELECTs of _find_abbreviation, _get_related_items and
\* _detect_people_for_save, and the return
AnalyzeRest(t) ==
    /\ threads[t].pc = "get_related_items"
    /\ threads' = [threads EXCEPT ![t] =
           IF WrongThread(Connection, t)
           THEN Ended("analyze", "ProgrammingError", <<>>)
           ELSE LET result == AnalyzeMatched(db, semantic, @.text, @.order, Detect(@.text),
                                             GetType(@.text), @.exact_matches)
                IN  Ended("analyze", result.raised, result.ret)]
    /\ UNCHANGED <<db, semantic, last, class_patterns, matchers, loads, monitor>>

\* the caller is done with what the call gave back
ThreadReturn(t) ==
    /\ threads[t].pc = "ended"
    /\ threads' = [threads EXCEPT ![t] = Ready]
    /\ UNCHANGED <<db, semantic, last, class_patterns, matchers, loads, monitor>>

NextThreads ==
    \E t \in Threads :
        \/ LoadCall(t)
        \/ LoadPerson(t)
        \/ LoadedPeople(t)
        \/ ResolveWikilink(t)
        \/ Commit(t)
        \/ AnalyzeCall(t)
        \/ AnalyzeMatches(t)
        \/ AnalyzeRest(t)
        \/ ThreadReturn(t)

SpecThreads == InitThreads /\ [][NextThreads]_vars

(***************************************************************************)
(* The clipboard monitors: SystemMonitor._monitor_loop and                 *)
(* AsyncSystemMonitor._monitor_loop (monitors/system_monitor.py), which    *)
(* hand the clipboard text to on_selection, and WidgetMode.check_clipboard  *)
(* (widget_mode.py), which hands the stripped text to analyze.  One action  *)
(* is one pass of the loop.                                                *)
(***************************************************************************)
\* min_length as the constructors default it and main.py passes it
MinLength == 3

\* callback invocations kept
MaxCalls == 3

C_abc == <<"a", "b", "c">>

\* what the user can have on the clipboard
ClipboardTexts ==
    { <<>>, <<"a", "b">>, <<"a", "b", " ">>, <<" ", " ", " ">>,
      C_abc, C_abc \o <<" ">>, <<" ">> \o C_abc, C_abc \o <<"d">> }

MonitorKinds == {"SystemMonitor", "AsyncSystemMonitor", "WidgetMode"}

\* a variant without the comparison with the remembered text
IsNewSelection_NoMemory(kind, current_text, last_text, min_length) ==
    /\ kind = "WidgetMode" \/ current_text # <<>>
    /\ Len(Strip(current_text)) >= min_length

\* the condition of the if: the monitors also test the text's truthiness
IsNewSelection(kind, current_text, last_text, min_length) ==
    /\ kind = "WidgetMode" \/ current_text # <<>>
    /\ current_text # last_text
    /\ Len(Strip(current_text)) >= min_length

\* what is handed on: the monitors pass current_text, the widget passes
\* current_clipboard.strip()
Selection(kind, current_text) ==
    IF kind = "WidgetMode" THEN Strip(current_text) ELSE current_text

\* __init__: last_text = "" (last_clipboard in the widget)
InitMonitor ==
    /\ db = EmptyStore
    /\ semantic = None
    /\ last = Idle
    /\ class_patterns = PATTERNS
    /\ matchers = <<NewMatcher>>
    /\ threads = <<>>
    /\ loads = [called |-> 0, returned |-> 0]
    /\ \E kind \in MonitorKinds :
           monitor = [kind |-> kind, min_length |-> MinLength, clipboard |-> <<>>,
                      last_text |-> <<>>, current_text |-> None, calls |-> <<>>]

\* the user copies a text
Copy ==
    /\ \E text \in ClipboardTexts : monitor' = [monitor EXCEPT !.clipboard = text]
    /\ UNCHANGED <<db, semantic, last, class_patterns, matchers, threads, loads>>

\* one pass of the loop: pyperclip.paste(), the test, and for a new
\* selection the assignment to last_text followed by the call
MonitorLoop ==
    /\ Len(monitor.calls) < MaxCalls
    /\ LET current_text == monitor.clipboard
       IN  monitor' =
               IF IsNewSelection(monitor.kind, current_text, monitor.last_text, monitor.min_length)
               THEN [monitor EXCEPT !.current_text = Some(current_text),
                                    !.last_text = current_text,
                                    !.calls = Append(@, Selection(monitor.kind, current_text))]
               ELSE [monitor EXCEPT !.current_text = Some(current_text)]
    /\ UNCHANGED <<db, semantic, last, class_patterns, matchers, threads, loads>>

NextMonitor ==
    \/ Copy
    \/ MonitorLoop

SpecMonitor == InitMonitor /\ [][NextMonitor]_vars

(***************************************************************************)
(* Properties of analyze                                                   *)
(***************************************************************************)
\* analyze has returned a result
Returned == last.op = "analyze" /\ last.raised = "none"

Result == last.ret[1]

\* the (type, id) pair of a result item
TypeId(item) == <<item.type, item.data.id>>

NoRepeatedTypeId(items) ==
    \A i, j \in DOMAIN items : i # j => TypeId(items[i]) # TypeId(items[j])

\* C1: in every result analyze returns, exact_matches holds no two items
\* with the same (type, id), and neither does related_items.
C1_DedupInvariant ==
    Returned =>
        /\ NoRepeatedTypeId(Result.exact_matches)
        /\ NoRepeatedTypeId(Result.related_items)

\* a result for which both deduplications dropped an item: a contact found
\* by the LIKE search and by its name, and a neighbour reached by two edges
C1_Witness ==
    /\ Returned
    /\ LET found  == FindExactMatches(db, last.text)
           people == FindPersonsInText(db, last.order)
       IN  /\ Len(found) + Len(people) > Len(Result.exact_matches)
           /\ Len(GetRelatedItems(db, Result.exact_matches, KeysOf(Result.exact_matches)))
                  > Len(Result.related_items)
           /\ Result.related_items # <<>>

\* C2: no (type, id) of exact_matches appears in related_items of the same
\* result, also when an edge joins two matched entities or a matched entity
\* to itself.
C2_ExclusionInvariant ==
    Returned =>
        \A i \in DOMAIN Result.exact_matches, j \in DOMAIN Result.related_items :
            TypeId(Result.exact_matches[i]) # TypeId(Result.related_items[j])

\* a relationship row has both its endpoints among the matched entities
JoinsMatched(r, items) ==
    /\ \E i \in DOMAIN items : TypeId(items[i]) = <<r.from_type, r.from_id>>
    /\ \E i \in DOMAIN items : TypeId(items[i]) = <<r.to_type, r.to_id>>

\* a result for a store in which one edge joins two different matched
\* entities and another joins a matched entity to itself
C2_Witness ==
    /\ Returned
    /\ \E i \in DOMAIN db.relationships :
           /\ JoinsMatched(db.relationships[i], Result.exact_matches)
           /\ db.relationships[i].from_id # db.relationships[i].to_id
    /\ \E i \in DOMAIN db.relationships :
           /\ JoinsMatched(db.relationships[i], Result.exact_matches)
           /\ db.relationships[i].from_type = db.relationships[i].to_type
           /\ db.relationships[i].from_id = db.relationships[i].to_id

\* the items analyze matches for the text of the last call
MatchedItems ==
    DedupeEntities(ExtendMatches(FindExactMatches(db, last.text),
                                 FindPersonsInText(db, last.order)))

\* a metadata column that does not hold a JSON object, read as empty
AsEmptyMetadata(rows) ==
    [i \in DOMAIN rows |->
        IF rows[i].metadata.kind = "object" THEN rows[i]
        ELSE [rows[i] EXCEPT !.metadata = MetaObject(<<>>, Null)]]

WithEmptyMetadata(d) ==
    [d EXCEPT !.snippets = AsEmptyMetadata(@), !.projects = AsEmptyMetadata(@)]

\* an exact-matched snippet or project whose metadata is NULL or not JSON
BadMetadataMatched ==
    \E i \in DOMAIN MatchedItems :
        /\ MatchedItems[i].type \in {"snippet", "project"}
        /\ MatchedItems[i].data.metadata.kind # "object"

\* C3: when an exact-matched snippet or project has NULL or unparseable
\* metadata, analyze returns, and its narrative and insights are those it
\* computes with that metadata empty.
C3_MetadataTolerated ==
    (last.op = "analyze" /\ BadMetadataMatched) =>
        LET clean == AnalyzeResult(WithEmptyMetadata(db), semantic, last.text, last.order)
        IN  /\ last.raised = "none"
            /\ Result.smart_context = clean.ret[1].smart_context
            /\ Result.insights = clean.ret[1].insights

\* a row of that type and id exists
Resolves(d, type, id) ==
    \/ type = "contact" /\ \E i \in DOMAIN d.contacts : d.contacts[i].id = id
    \/ type = "snippet" /\ \E i \in DOMAIN d.snippets : d.snippets[i].id = id
    \/ type = "project" /\ \E i \in DOMAIN d.projects : d.projects[i].id = id
    \/ type = "abbreviation" /\ \E i \in DOMAIN d.abbreviations : d.abbreviations[i].id = id

\* the endpoints reached over one edge from an entity: <<type, id>> pairs
NeighboursOf(d, type, id) ==
    {<<d.relationships[i].to_type, d.relationships[i].to_id>> :
        i \in {k \in DOMAIN d.relationships :
                  /\ d.relationships[k].from_type = type
                  /\ d.relationships[k].from_id = id}}
    \cup
    {<<d.relationships[i].from_type, d.relationships[i].from_id>> :
        i \in {k \in DOMAIN d.relationships :
                  /\ d.relationships[k].to_type = type
                  /\ d.relationships[k].to_id = id}}

MatchedNeighbours ==
    UNION {NeighboursOf(db, MatchedItems[i].type, MatchedItems[i].data.id) :
              i \in DOMAIN MatchedItems}

\* a matched entity has an edge whose other endpoint is no row
DanglingTouched == \E n \in MatchedNeighbours : ~Resolves(db, n[1], n[2])

\* C4: when an edge of a matched entity leads to an id without a row or to
\* a type without a table, analyze returns, related_items leaves that
\* endpoint out and holds every other neighbour that resolves and is not
\* itself matched.
C4_DanglingTolerated ==
    (last.op = "analyze" /\ DanglingTouched) =>
        /\ last.raised = "none"
        /\ {TypeId(Result.related_items[j]) : j \in DOMAIN Result.related_items}
               = {n \in MatchedNeighbours :
                     /\ Resolves(db, n[1], n[2])
                     /\ \A i \in DOMAIN MatchedItems : TypeId(MatchedItems[i]) # n}

\* C5: analyze reads the store and writes nothing: the five tables are the
\* same after a call as before, with or without a semantic searcher.
C5_PureReader == [][last'.op = "analyze" => db' = db]_vars

\* a call with a searcher that reported matches, on a store with rows the
\* call matched
C5_Witness ==
    /\ Returned
    /\ semantic # None
    /\ Result.semantic_matches # <<>>
    /\ Result.exact_matches # <<>>
    /\ db.relationships # <<>>

\* C6: the outcome of analyze depends on the text and the store only: it
\* is the same for every order in which the set of extracted names is
\* iterated.
C6_Deterministic ==
    last.op = "analyze" =>
        \A o \in Orders(ExtractPersonNames(last.text)) :
            AnalyzeResult(db, semantic, last.text, o)
                = [raised |-> last.raised, ret |-> last.ret]

\* the row of that type and id
RowOf(d, type, id) ==
    LET rows == d[TableName(type)]
    IN  rows[CHOOSE i \in DOMAIN rows : rows[i].id = id]

\* one hop of find_related: match i, direction (0 outgoing, 1 incoming) and
\* edge k, kept when the neighbour resolves and its key is not excluded
HopNeighbour(h) ==
    LET r == db.relationships[h[3]]
    IN  IF h[2] = 0 THEN <<r.to_type, r.to_id>> ELSE <<r.from_type, r.from_id>>

Hops ==
    {h \in (DOMAIN last.matches) \X {0, 1} \X (DOMAIN db.relationships) :
        LET r == db.relationships[h[3]]
            m == last.matches[h[1]]
            n == HopNeighbour(h)
        IN  /\ IF h[2] = 0
               THEN r.from_type = m.type /\ r.from_id = m.data.id
               ELSE r.to_type = m.type /\ r.to_id = m.data.id
            /\ Resolves(db, n[1], n[2])
            /\ [t |-> n[1], kind |-> "id", id |-> n[2], ser |-> <<>>]
                   \notin last.exclude_keys}

\* by matched entity, then outgoing before incoming, then table order
HopBefore(g, h) ==
    \/ g[1] < h[1]
    \/ g[1] = h[1] /\ g[2] < h[2]
    \/ g[1] = h[1] /\ g[2] = h[2] /\ g[3] < h[3]

HopItem(h) ==
    LET r == db.relationships[h[3]]
        n == HopNeighbour(h)
    IN  [type |-> n[1],
         data |-> RowOf(db, n[1], n[2]),
         relationship |-> IF h[2] = 0 THEN <<r.relationship_type>>
                          ELSE <<"inverse_", r.relationship_type>>,
         strength |-> r.strength]

\* C7: find_related returns, per matched entity in the given order, one
\* item per outgoing edge (the target, label unchanged) and then one per
\* incoming edge (the source, label prefixed inverse_), each with the
\* edge's strength, leaving out only neighbours that do not resolve or
\* whose key is excluded.
C7_RelatedShape ==
    last.op = "related" =>
        /\ Len(last.out) = Cardinality(Hops)
        /\ \A h \in Hops :
               last.out[1 + Cardinality({g \in Hops : HopBefore(g, h)})] = HopItem(h)

\* a call that returned an outgoing and an incoming neighbour and left out
\* the unresolvable target of an edge of a matched entity
C7_Witness ==
    /\ last.op = "related"
    /\ \E g, h \in Hops : g[2] = 0 /\ h[2] = 1
    /\ \E k \in DOMAIN db.relationships : \E i \in DOMAIN last.matches :
           /\ db.relationships[k].from_type = last.matches[i].type
           /\ db.relationships[k].from_id = last.matches[i].data.id
           /\ ~Resolves(db, db.relationships[k].to_type, db.relationships[k].to_id)

\* the items whose key did not occur earlier in the list, in list order
FirstOccurrences(items) ==
    {i \in DOMAIN items :
        \A j \in 1..(i - 1) :
            EntityKey(ItemType(items[j]), ItemData(items[j]))
                # EntityKey(ItemType(items[i]), ItemData(items[i]))}

\* C8: dedupe(items) is the subsequence of the items whose canonical key
\* did not occur earlier: order kept, first occurrence kept with all its
\* fields, later items with the same key dropped.
C8_FirstSeen ==
    last.op = "dedupe" =>
        LET keep == FirstOccurrences(last.items)
        IN  /\ Len(last.out) = Cardinality(keep)
            /\ \A i \in keep :
                   last.out[Cardinality({j \in keep : j <= i})] = last.items[i]

\* a list where a later item repeats the key of the first with other fields
C8_Witness ==
    /\ last.op = "dedupe"
    /\ Len(last.items) = 3
    /\ \E i \in 2..3 :
           /\ EntityKey(ItemType(last.items[i]), ItemData(last.items[i]))
                  = EntityKey(ItemType(last.items[1]), ItemData(last.items[1]))
           /\ last.items[i] # last.items[1]
    /\ Len(last.out) = 2

\* the contacts the person-name path finds for the text of the last call
PersonFound == FindPersonsInText(db, last.order)

\* the contact row is returned by the substring search
LikeFound(contact) ==
    LikeContains(contact.name, last.text) \/ LikeContains(contact.email, last.text)

\* C9: in exact_matches a contact carries match_score and match_reason
\* exactly when the person-name path found it and the substring search
\* did not; every contact the substring search returned is there as a
\* plain {type, data} item.
C9_ScoreFieldsOnlyForFuzzy ==
    Returned =>
        /\ \A i \in DOMAIN Result.exact_matches :
               LET item == Result.exact_matches[i]
               IN  item.type = "contact" =>
                       /\ ({"match_score", "match_reason"} \subseteq DOMAIN item)
                              <=> /\ \E k \in DOMAIN PersonFound :
                                         PersonFound[k].data.id = item.data.id
                                  /\ ~LikeFound(item.data)
                       /\ ({"match_score", "match_reason"} \cap DOMAIN item = {})
                              <=> LikeFound(item.data)
        /\ \A c \in DOMAIN db.contacts :
               LikeFound(db.contacts[c]) =>
                   \E i \in DOMAIN Result.exact_matches :
                       Result.exact_matches[i] = [type |-> "contact", data |-> db.contacts[c]]

\* both paths found one contact, the person-name path alone another
C9_Witness ==
    /\ Returned
    /\ \E i, j \in DOMAIN Result.exact_matches : \E k \in DOMAIN PersonFound :
           /\ Result.exact_matches[i].type = "contact"
           /\ DOMAIN Result.exact_matches[i] = {"type", "data"}
           /\ PersonFound[k].data.id = Result.exact_matches[i].data.id
           /\ Result.exact_matches[j].type = "contact"
           /\ "match_score" \in DOMAIN Result.exact_matches[j]

\* the whitespace-separated tokens of a string, as <<first, last>> positions
TokenSpans(s) ==
    {sp \in (DOMAIN s) \X (DOMAIN s) :
        /\ sp[1] <= sp[2]
        /\ \A i \in sp[1]..sp[2] : s[i] # Space
        /\ sp[1] = 1 \/ s[sp[1] - 1] = Space
        /\ sp[2] = Len(s) \/ s[sp[2] + 1] = Space}

\* the score the three tiers give a contact name for a query name
TierScore(query, name) ==
    IF Lower(query) = Lower(name) THEN 10
    ELSE IF Contains(Lower(name), Lower(query)) \/ Contains(Lower(query), Lower(name))
         THEN 8
         ELSE Cardinality({sp \in TokenSpans(query) :
                              /\ sp[2] - sp[1] + 1 >= 2
                              /\ Contains(Lower(name), Lower(SubSeq(query, sp[1], sp[2])))})

\* out lists exactly the given contacts that score above 0, each with its
\* tier score, by score descending and in table order among equal scores
ScoredAndSorted(out, query, contacts) ==
    /\ \A i \in DOMAIN out :
           /\ out[i].contact \in contacts
           /\ out[i].score = TierScore(query, out[i].contact.name)
    /\ \A c \in contacts :
           TierScore(query, c.name) > 0 => \E i \in DOMAIN out : out[i].contact = c
    /\ \A i, j \in DOMAIN out :
           i < j => \/ out[i].score > out[j].score
                    \/ /\ out[i].score = out[j].score
                       /\ out[i].contact.id < out[j].contact.id

\* C10 as stated: every contact of the store is scored by the three tiers,
\* those scoring 0 are omitted, the result is sorted by score descending
\* with ties in table order.
C10_EveryContactScored ==
    last.op = "match" =>
        ScoredAndSorted(last.out, last.person_name, Range(db.contacts))

\* C10: every contact with a non-empty name is scored by the three tiers,
\* those scoring 0 are omitted and the result is sorted by score
\* descending with ties in table order; a contact with an empty name is
\* never in the result.
C10_NamedContactsScored ==
    last.op = "match" =>
        ScoredAndSorted(last.out, last.person_name,
                        {c \in Range(db.contacts) : c.name # <<>>})

\* a query scored against a named contact and a contact without a name
C10_Witness ==
    /\ last.op = "match"
    /\ last.out # <<>>
    /\ \E c \in Range(db.contacts) : c.name = <<>>
    /\ last.person_name # <<>>

\* the contact name is neither equal to the query name nor in a substring
\* relation with it
PartialOnly(query, name) ==
    /\ Lower(query) # Lower(name)
    /\ ~Contains(Lower(name), Lower(query))
    /\ ~Contains(Lower(query), Lower(name))

\* C11: a contact matched by partial token overlap only has a score in
\* 1..7, below the substring tier (8) and the exact tier (10), whatever
\* the number of tokens of the query name.
C11_PartialBelowTiers ==
    last.op = "match" =>
        \A i \in DOMAIN last.out :
            PartialOnly(last.person_name, last.out[i].contact.name)
                => last.out[i].score \in 1..7

\* the best score a contact name obtains over the extracted names
BestScore(names, contact_name) ==
    SetMax({0} \cup {TierScore(n, contact_name) : n \in names})

\* C12: the person-match list holds each matched contact at most once,
\* with the maximum score it obtained over all extracted names whatever
\* the order of the names, sorted by match_score descending.
C12_BestScorePerContact ==
    last.op = "persons" =>
        LET names == ExtractPersonNames(last.text)
        IN  /\ \A i, j \in DOMAIN last.out :
                   i # j => last.out[i].data.id # last.out[j].data.id
            /\ \A i \in DOMAIN last.out :
                   /\ last.out[i].type = "contact"
                   /\ last.out[i].data \in Range(db.contacts)
                   /\ last.out[i].match_score = BestScore(names, last.out[i].data.name)
            /\ \A c \in Range(db.contacts) :
                   (c.name # <<>> /\ BestScore(names, c.name) > 0)
                       => \E i \in DOMAIN last.out : last.out[i].data = c
            /\ \A i, j \in DOMAIN last.out :
                   i < j => last.out[i].match_score >= last.out[j].match_score

\* two extracted names, the second scoring higher than the first on one
\* contact and lower on another
C12_Witness ==
    /\ last.op = "persons"
    /\ Len(last.order) = 2
    /\ Len(last.out) = 2
    /\ \E c \in Range(db.contacts) :
           TierScore(last.order[1], c.name) < TierScore(last.order[2], c.name)
    /\ \E c \in Range(db.contacts) :
           TierScore(last.order[1], c.name) > TierScore(last.order[2], c.name)

\* the contacts with a name, which the fuzzy matcher scores
NamedContacts == {c \in Range(db.contacts) : c.name # <<>>}

\* the fuzzy matcher finds no candidate for the name
NoCandidate(name) == \A c \in NamedContacts : TierScore(name, c.name) = 0

\* C13: in detected_people the entries with exists = true have pairwise
\* distinct contact_id and report a best-scoring contact of their name;
\* every extracted name without a candidate appears exactly once, with
\* exists = false and contact_id = null; no contact is reported twice.
C13_PeopleDeduped ==
    last.op = "people" =>
        /\ \A i, j \in DOMAIN last.out :
               i # j => /\ last.out[i].name # last.out[j].name
                        /\ (last.out[i].exists /\ last.out[j].exists)
                               => last.out[i].contact_id # last.out[j].contact_id
        /\ \A i \in DOMAIN last.out :
               LET e == last.out[i]
               IN  /\ e.name \in ExtractPersonNames(last.text)
                   /\ e.exists =>
                          \E c \in NamedContacts :
                              /\ e.contact_id = <<c.id>>
                              /\ e.contact_name = c.name
                              /\ e.score = TierScore(e.name, c.name)
                              /\ e.score > 0
                              /\ \A b \in NamedContacts :
                                     TierScore(e.name, b.name) <= e.score
                   /\ ~e.exists => e.contact_id = <<>> /\ NoCandidate(e.name)
        /\ \A n \in ExtractPersonNames(last.text) :
               NoCandidate(n) =>
                   \E i \in DOMAIN last.out :
                       /\ last.out[i].name = n
                       /\ ~last.out[i].exists
                       /\ last.out[i].contact_id = <<>>

\* two name variants whose best contact is the same: one entry
C13_Witness ==
    /\ last.op = "people"
    /\ Len(last.order) = 2
    /\ Len(db.contacts) = 2
    /\ Len(last.out) = 1
    /\ last.out[1].exists

\* the store's only contact is named "Ab Ba"
OnlyContactIs(name) == Len(db.contacts) = 1 /\ db.contacts[1].name = name

\* C14: analysing a sentence that names a stored contact and an unknown
\* person gives exactly two detected_people entries: the contact's own name
\* with exists true and its id, and the unknown name with exists false and
\* no contact_id.
C14_KnownAndUnknown == (Returned /\ last.text = T_Met /\ OnlyContactIs(N_AbBa)) => /\ Len(Result.detected_people) = 2 /\ \E i, j \in 1..2 : /\ Result.detected_people[i].name = N_AbBa /\ Result.detected_people[i].exists /\ Result.detected_people[i].contact_id = Some(db.contacts[1].id) /\ Result.detected_people[j].name = N_JaTa /\ ~Result.detected_people[j].exists /\ Result.detected_people[j].contact_id = None

\* the contact items of the result
ContactItems == {i \in DOMAIN Result.exact_matches : Result.exact_matches[i].type = "contact"}

\* the contact's item of the result, if any
ItemsOfContact(c) == {i \in ContactItems : Result.exact_matches[i].data = c}

\* C15 (as stated): a single-word query that is one token of a contact's
\* name returns that contact in exact_matches as a person match carrying a
\* score of at least 1, and a single-word query that overlaps no contact
\* returns no contact item.
C15_SingleWordScored == Returned => /\ (last.text = T_Ab => \A c \in Range(db.contacts) : c.name = N_AbBa => \E i \in ItemsOfContact(c) : "match_score" \in DOMAIN Result.exact_matches[i] /\ Result.exact_matches[i].match_score >= 1) /\ (last.text = T_cc => ContactItems = {})

\* C15 (amended): a single-word query that is one token of a contact's name
\* returns that contact in exact_matches exactly once, as a plain substring
\* match without score or reason, and a single-word query that overlaps no
\* contact returns no contact item.
C15_SingleWordLiteral == Returned => /\ (last.text = T_Ab => \A c \in Range(db.contacts) : c.name = N_AbBa => /\ Cardinality(ItemsOfContact(c)) = 1 /\ \A i \in ItemsOfContact(c) : DOMAIN Result.exact_matches[i] = {"type", "data"}) /\ (last.text = T_cc => ContactItems = {})

C15_Witness == Returned /\ last.text = T_Ab /\ \E c \in Range(db.contacts) : c.name = N_AbBa /\ ItemsOfContact(c) # {}

\* what ends a word: whitespace only (strict), or any character that is not
\* a letter, a digit or an underscore
Delimits(c, strict) == IF strict THEN c = Space ELSE ~IsWordChar(c)

\* the capitalized words of s (one uppercase letter, then one or more
\* lowercase letters, delimited on both sides), as <<first, last>> positions
CapWords(s, strict) == {sp \in (DOMAIN s) \X (DOMAIN s) : /\ sp[1] < sp[2] /\ s[sp[1]] \in UpperChars /\ (\A i \in (sp[1] + 1)..sp[2] : s[i] \in LowerChars) /\ (sp[1] = 1 \/ Delimits(s[sp[1] - 1], strict)) /\ (sp[2] = Len(s) \/ Delimits(s[sp[2] + 1], strict))}

\* word b comes after word a with nothing but whitespace between them
Follows(s, a, b) == a[2] + 1 < b[1] /\ \A i \in (a[2] + 1)..(b[1] - 1) : s[i] = Space

\* the last word of the run that word a is in
RECURSIVE RunEnd(_, _, _)
RunEnd(s, words, a) == IF \E b \in words : Follows(s, a, b) THEN RunEnd(s, words, CHOOSE b \in words : Follows(s, a, b)) ELSE a

\* the maximal runs of two or more consecutive capitalized words
MaximalRuns(s, strict) == {SubSeq(s, a[1], RunEnd(s, CapWords(s, strict), a)[2]) : a \in {w \in CapWords(s, strict) : (\E b \in CapWords(s, strict) : Follows(s, w, b)) /\ ~\E q \in CapWords(s, strict) : Follows(s, q, w)}}

\* C16 (as stated): extract_names returns exactly the maximal runs of two or
\* more consecutive whitespace-separated words, each one uppercase letter
\* followed by one or more lowercase letters, each name once.
C16_RunsOfWhitespaceWords == last.op = "names" => /\ Range(last.out) = MaximalRuns(last.text, TRUE) /\ \A i, j \in DOMAIN last.out : last.out[i] = last.out[j] => i = j

\* C16 (amended): extract_names returns exactly the maximal runs of two or
\* more consecutive capitalized words separated by whitespace, a word being
\* delimited by any character that is not a letter, digit or underscore;
\* each name once.
C16_RunsOfBoundedWords == last.op = "names" => /\ Range(last.out) = MaximalRuns(last.text, FALSE) /\ \A i, j \in DOMAIN last.out : last.out[i] = last.out[j] => i = j

\* a name that occurs twice in the text is returned once
C16_Witness == last.op = "names" /\ Len(last.out) = 1 /\ Len(FindAllNames(last.text, 1)) = 2

\* the column holds q as a literal substring, letter case ignored
HoldsLiterally(column, q) == column # Null /\ Contains(Lower(column), Lower(q))

ContactHolds(r) == HoldsLiterally(r.name, last.text) \/ HoldsLiterally(r.email, last.text)

SnippetHolds(r) == HoldsLiterally(r.text, last.text) \/ HoldsLiterally(r.tags, last.text)

ProjectHolds(r) == HoldsLiterally(r.name, last.text) \/ HoldsLiterally(r.tags, last.text)

\* C17: find_exact_matches(q) returns exactly the contacts whose name or
\* email, the snippets whose text or stored tags and the projects whose name
\* or stored tags hold q as a literal case-insensitive substring, every
\* character of q taken literally; contacts first, then snippets, then
\* projects, each in store order.
C17_LiteralSubstring == last.op = "exact" => last.out = AsItems(SelectSeq(db.contacts, ContactHolds), "contact") \o AsItems(SelectSeq(db.snippets, SnippetHolds), "snippet") \o AsItems(SelectSeq(db.projects, ProjectHolds), "project")

\* q is t without its leading and trailing whitespace
IsTrimOf(q, t) ==
    /\ (q = <<>> \/ (q[1] # Space /\ q[Len(q)] # Space))
    /\ \E i \in 1..(Len(t) + 1) :
        /\ i + Len(q) - 1 <= Len(t)
        /\ q = SubSeq(t, i, i + Len(q) - 1)
        /\ \A k \in DOMAIN t : (k < i \/ k >= i + Len(q)) => t[k] = Space

\* the rows whose short form is the trimmed text, letter case ignored
SameShortForm == {i \in DOMAIN db.abbreviations : \E q \in SeqsUpTo({last.text[k] : k \in DOMAIN last.text}, Len(last.text)) : IsTrimOf(q, last.text) /\ Lower(db.abbreviations[i].abbr) = Lower(q)}

\* C18: find_abbreviation(q) returns a row exactly when some stored short
\* form equals q without its surrounding whitespace, letter case ignored; a
\* q that holds a short form or is held by one gives none; the row depends
\* only on the trimmed, case-folded q (the first such row of the table).
C18_TrimmedCaseless == last.op = "abbr" => IF SameShortForm = {} THEN last.out = None ELSE last.out = Some(db.abbreviations[CHOOSE i \in SameShortForm : \A j \in SameShortForm : i <= j])

\* a text in another spelling and with whitespace around it finds the row
C18_Witness == last.op = "abbr" /\ last.out # None /\ last.text[1] = Space /\ last.out[1].abbr \notin {SubSeq(last.text, i, j) : i, j \in DOMAIN last.text}

\* "'{abbr}' stands for {full}."
StandsFor(a) == <<"'">> \o a.abbr \o <<"' stands for ">> \o a.full \o <<".">>

\* C19: whenever analyze finds an abbreviation, smart_context is
\* "'{abbr}' stands for {full}." followed, only when the category is
\* non-empty, by " Category: {category}", whatever the detected type, the
\* matches and the related items are.
C19_AbbreviationContext == (Returned /\ Result.abbreviation # None) => Result.smart_context = StandsFor(Result.abbreviation[1]) \o (IF Result.abbreviation[1].category \in {Null, <<>>} THEN <<>> ELSE <<" ", "Category: ">> \o Result.abbreviation[1].category)

\* an abbreviation found next to a contact match and a project match
C19_Witness == Returned /\ Result.abbreviation # None /\ ContactItems # {} /\ \E i \in DOMAIN Result.exact_matches : Result.exact_matches[i].type = "project"

\* the fields of the first contact match that the summary reports
FirstContactSays == {f \in {"role", "last_contact", "next_event"} : ContactItems # {} /\ Result.exact_matches[CHOOSE i \in ContactItems : \A j \in ContactItems : i <= j].data[f] \notin {Null, <<>>}}

\* nothing to report about the selection
NothingToSay == /\ Result.abbreviation = None /\ Result.detected_type = None /\ FirstContactSays = {} /\ (\A i \in DOMAIN Result.exact_matches : Result.exact_matches[i].type # "project") /\ (\A i \in DOMAIN Result.related_items : Result.related_items[i].type # "contact")

\* C20: smart_context is never empty, and it is "No additional context
\* found." exactly when there is no abbreviation, no detected type, the first
\* contact match (if any) has none of role, last_contact and next_event,
\* there is no project match and related_items holds no contact.
C20_NoContextExactly == Returned => /\ Result.smart_context # <<>> /\ (\A i \in DOMAIN Result.smart_context : Result.smart_context[i] # "") /\ (Result.smart_context = <<"No additional context found.">> <=> NothingToSay)

\* a contact match without role and dates, and nothing else to report
C20_Witness == Returned /\ ContactItems # {} /\ Result.related_items # <<>> /\ Result.smart_context = <<"No additional context found.">>

\* the pattern names get_type ranks, highest priority first
BuiltIn == <<"jira_ticket", "email", "url", "phone", "date">>

\* the types detect reports for the text of the call, in detection order
Reported == DetectOn(PatternsOf(last.matcher), last.text).value

ReportedTypes == {Reported[n].type : n \in DOMAIN Reported}

\* C21: get_type returns the highest-priority built-in pattern among those
\* detect reports; a registered pattern only when no built-in one is
\* reported, then the first in detection order; and nothing exactly when
\* detect reports nothing, so the type is always a key of the detections.
C21_PriorityOfBuiltIns == (last.op = "get_type" /\ last.raised = "none") => /\ (last.value = <<>> <=> Reported = <<>>) /\ (last.value # <<>> => last.value[1] \in ReportedTypes) /\ (\A n \in DOMAIN BuiltIn : (BuiltIn[n] \in ReportedTypes /\ \A k \in 1..(n - 1) : BuiltIn[k] \notin ReportedTypes) => last.value = <<BuiltIn[n]>>) /\ ((Reported # <<>> /\ \A n \in DOMAIN BuiltIn : BuiltIn[n] \notin ReportedTypes) => last.value = <<Reported[1].type>>)

\* two built-in patterns and a registered one are reported
C21_Witness == last.op = "get_type" /\ last.raised = "none" /\ Cardinality(ReportedTypes) = 3 /\ "custom" \in ReportedTypes /\ last.value = <<"email">>

\* the patterns of the dict whose regex compiles
Compilable(patterns) == SelectSeq(patterns, LAMBDA r : Compiles(r.regex))

\* C22: when a registered pattern's regex does not compile, detect skips
\* only that pattern: it does not raise and reports every other pattern
\* as it would without the bad one.
C22_BadRegexSkipped == last.op = "detect" => /\ last.raised = "none" /\ last.value = DetectOn(Compilable(PatternsOf(last.matcher)), last.text).value

\* every instance reads the one dict of the class, in which the built-in
\* names keep their places, and detect reports by that dict
OneRegistry ==
    /\ \A m \in DOMAIN matchers : matchers[m].PATTERNS = <<>>
    /\ \A n \in DOMAIN BuiltIn : class_patterns[n].type = BuiltIn[n]
    /\ \A i, j \in DOMAIN class_patterns :
           class_patterns[i].type = class_patterns[j].type => i = j
    /\ (last.op = "detect" /\ last.raised = "none")
           => last.value = DetectOn(class_patterns, last.text).value

\* a step that registers a pattern through one instance
Registers == last = Idle /\ last' = Idle /\ Len(matchers') = Len(matchers)

\* after the step every instance finds the name with the new regex, every
\* other name as before
SeenByAll ==
    \E pattern_type \in PatternNames, regex \in RegexPool :
        \A m \in DOMAIN matchers :
            LET before == PatternsOf(m)
                after  == PatternsOf(m)'
            IN  /\ \E n \in DOMAIN after :
                       after[n] = [type |-> pattern_type, regex |-> regex]
                /\ \A n \in DOMAIN before :
                       before[n].type # pattern_type => after[n] = before[n]

\* C29: add_pattern changes state shared by all PatternMatcher instances:
\* after one instance registers a name, every instance, also one made
\* later, detects by the new regex, and registering the name of a built-in
\* pattern replaces that pattern for all of them.
C29_SharedRegistry == []OneRegistry /\ [][Registers => SeenByAll]_vars

\* an instance made after the application's one reports a registered name
\* and the replaced built-in
C29_Witness == last.op = "detect" /\ last.matcher = 2 /\ last.raised = "none" /\ (\E n \in DOMAIN last.value : last.value[n].type = "custom") /\ class_patterns[2] # PATTERNS[2]

\* what the same call gives with the searcher sem
WithSearcher(sem) == AnalyzeResult(db, sem, last.text, last.order)

\* two outcomes that differ in semantic_matches at most
SameButSemantic(r1, r2) == /\ r1.raised = r2.raised /\ Len(r1.ret) = Len(r2.ret) /\ \A i \in DOMAIN r1.ret : [r1.ret[i] EXCEPT !.semantic_matches = <<>>] = [r2.ret[i] EXCEPT !.semantic_matches = <<>>]

\* the searcher changes semantic_matches only
OnlySemanticMatches == \A sem \in {None} \cup {Some(x) : x \in Searchers} : SameButSemantic(WithSearcher(semantic), WithSearcher(sem))

\* C23: the semantic searcher influences only semantic_matches: for the
\* same text and store the results with and without a searcher agree on
\* every other field, and without a searcher semantic_matches is empty and
\* no exception is raised.
C23_SearcherIsOptional == last.op = "analyze" => /\ OnlySemanticMatches /\ (semantic = None => (last.raised = "none" /\ Result.semantic_matches = <<>>))

\* the candidate actions in generation order: those of the detected
\* pattern, then those of the matches in exact_matches order
Candidates == PatternActions(last.text, last.text_type, last.patterns) \o MatchActionsFrom(last.exact_matches, 1)

\* the candidates that no earlier candidate shares the label with
FirstOfLabel == {i \in DOMAIN Candidates : \A j \in 1..(i - 1) : Candidates[j].label # Candidates[i].label}

C26_PeopleAmongMatches == Returned => \A i \in DOMAIN Result.detected_people : Result.detected_people[i].exists => \E j \in ContactItems : Result.detected_people[i].contact_id = Some(Result.exact_matches[j].data.id)

\* a person of the text is a stored contact that only the name matcher finds
C26_Witness == Returned /\ \E i \in DOMAIN Result.detected_people : Result.detected_people[i].exists /\ \A j \in ContactItems : "match_score" \in DOMAIN Result.exact_matches[j]

\* an analyze call of thread t has ended
AnalyzeEnded(t) == threads[t].pc = "ended" /\ threads[t].op = "analyze"

\* C25: an analyzer built in one thread on the connection get_database
\* made can be called from any other thread, and from several at once:
\* every analyze call, whichever thread makes it, ends without a
\* thread-affinity error of the store.
C25_AnalyzeFromAnyThread ==
    \A t \in Threads : AnalyzeEnded(t) => threads[t].raised # "ProgrammingError"

\* thread t makes the first read of an analyze call in this step
FirstRead(t) == threads[t].pc = "find_exact_matches" /\ threads'[t].pc # "find_exact_matches"

\* C27: nothing keeps analyze from reading the shared connection while a
\* reload is under way: a first read of analyze that falls between the
\* statements of load_data is carried out, and the call goes on to read the
\* related items of what it found.
C27_AnalyzeReadsDuringReload ==
    [][\A t \in Threads : (FirstRead(t) /\ ReloadInProgress) => threads'[t].pc = "get_related_items"]_vars

\* the state C27 describes: an analyze result lists in exact_matches a
\* contact the reload under way has inserted, and its related_items lack
\* the target of a wikilink of that contact the reload has yet to insert
C27_PartialReloadSeen ==
    \E t, u \in Threads :
        /\ AnalyzeEnded(t)
        /\ threads[t].raised = "none"
        /\ threads[u].pc \in LoadPcs
        /\ \E k \in DOMAIN threads[u].wikilinks_to_resolve :
            LET link == threads[u].wikilinks_to_resolve[k]
                target == FindEntityByName(db, link[3])
                result == threads[t].ret[1]
            IN  /\ target # None
                /\ \E i \in DOMAIN result.exact_matches :
                       /\ result.exact_matches[i].type = link[1]
                       /\ result.exact_matches[i].data.id = link[2]
                /\ \A j \in DOMAIN result.related_items :
                       ~ (/\ result.related_items[j].type = target[1][1]
                          /\ result.related_items[j].data.id = target[1][2])

\* a is the beginning of b
IsPrefix(a, b) == Len(a) <= Len(b) /\ SubSeq(b, 1, Len(a)) = a

\* no step deletes or changes a row
RowsKept == \A table \in TableNames : IsPrefix(db[table], db'[table])

\* the ids of a table are all different
FreshIds(rows) == \A i, j \in DOMAIN rows : rows[i].id = rows[j].id => i = j

\* C28: load_data never deletes or updates a row: every call appends one
\* row with a fresh id for each source record, so the tables only grow, and
\* after k loads of the unchanged directory of n person files the contacts
\* table holds k * n rows.
C28_LoadOnlyAppends ==
    /\ [][RowsKept]_vars
    /\ [](\A table \in TableNames : FreshIds(db[table]))
    /\ [](~ ReloadInProgress => Len(db.contacts) = loads.returned * Cardinality(PersonFiles))

\* after the second load an analyze result lists the same person twice,
\* under two ids
C28_Witness ==
    /\ loads.returned = MaxLoads
    /\ \E t \in Threads :
        /\ AnalyzeEnded(t)
        /\ threads[t].raised = "none"
        /\ \E i, j \in DOMAIN threads[t].ret[1].exact_matches :
            LET a == threads[t].ret[1].exact_matches[i]
                b == threads[t].ret[1].exact_matches[j]
            IN  /\ a.type = "contact" /\ b.type = "contact"
                /\ a.data.name = b.data.name
                /\ a.data.id # b.data.id

\* the loop hands a text on in this step
Delivers == Len(monitor'.calls) = Len(monitor.calls) + 1

\* the text handed on in this step
Delivered == monitor'.calls[Len(monitor'.calls)]

\* the loop reads a clipboard value that is too short
ReadsTooShort == monitor'.current_text # monitor.current_text /\ Len(Strip(monitor.clipboard)) < monitor.min_length

\* no text is handed on twice in a row
NoRepeat == \A i \in 1..(Len(monitor.calls) - 1) : monitor.calls[i] # monitor.calls[i + 1]

\* C30 as the specification states it: the callback is invoked only for a
\* clipboard value that differs from the last value handed on and whose
\* stripped length is at least min_length, so it is never invoked twice in
\* succession with the same text, and a value that is too short neither
\* triggers it nor replaces the remembered value.
C30_NeverSameTextTwice ==
    /\ [][Delivers => /\ (monitor.calls # <<>> => monitor.clipboard # monitor.calls[Len(monitor.calls)])
                      /\ Len(Strip(monitor.clipboard)) >= monitor.min_length]_vars
    /\ []NoRepeat
    /\ [][ReadsTooShort => UNCHANGED <<monitor.calls, monitor.last_text>>]_vars

\* C30: each monitor hands a clipboard value on only when it differs from
\* the value it remembers, which is the clipboard value of its last call,
\* and its stripped length is at least min_length; SystemMonitor and
\* AsyncSystemMonitor never invoke the callback twice in succession with
\* the same text, while the widget, which hands on the stripped text, can;
\* a value that is too short neither triggers a call nor replaces the
\* remembered value.
C30_NeverSameClipboardTwice ==
    /\ [][Delivers => /\ monitor.clipboard # monitor.last_text
                      /\ Len(Strip(monitor.clipboard)) >= monitor.min_length
                      /\ monitor'.last_text = monitor.clipboard
                      /\ Delivered = Selection(monitor.kind, monitor.clipboard)]_vars
    /\ [](monitor.kind # "WidgetMode" => NoRepeat)
    /\ [](monitor.calls # <<>> => Selection(monitor.kind, monitor.last_text) = monitor.calls[Len(monitor.calls)])
    /\ [][ReadsTooShort => UNCHANGED <<monitor.calls, monitor.last_text>>]_vars

\* after two calls the loop has read a value that is too short and differs
\* from the remembered one
C30_Witness ==
    /\ Len(monitor.calls) >= 2
    /\ monitor.current_text = Some(monitor.clipboard)
    /\ monitor.clipboard # monitor.last_text
    /\ Len(Strip(monitor.clipboard)) < monitor.min_length

====
